---- MODULE Spec2Model ----
(***************************************************************************)
(* Circular manufacturing conveyor: the collision arbiter                  *)
(* (src/src/collision_manager.py), the four corner controllers            *)
(* (src/src/corner_controller.py), the CEP fuser                           *)
(* (src/physical_system/cep_consumer.py) with its producers                *)
(* (src/src/sensor_reader.py, src/physical_system/nfc_reader.py), the      *)
(* station controllers (src/src/station_controller.py) and the shutdown of *)
(* the supervisor (src/physical_system/system_manager.py).                 *)
(*                                                                         *)
(* Time is the wall clock time.time() in whole seconds.  Motor speeds are  *)
(* the configured throttles in tenths (0.5 -> 5, 0.7 -> 7).                *)
(***************************************************************************)
EXTENDS Integers, Sequences, FiniteSets, TLC

VARIABLES
    now,                        \* time.time()
    \* ---- CollisionManager
    corners_occupied,           \* [1..4 -> BOOLEAN]
    corner_last_used,           \* [1..4 -> Nat]
    corners_waiting_handshake,  \* [1..4 -> BOOLEAN]
    \* ---- CornerController (one per corner)
    state,                      \* CornerState of each corner
    running,                    \* self.running of each corner
    pc,                         \* where the corner thread is blocked inside a handler
    jam_log,                    \* the last error/critical record the corner logged
    req_result,                 \* the value the corner's last request_corner returned
    \* ---- MotorController
    motor_speed,                \* last throttle commanded per motor, in tenths
    \* ---- event queues (SystemManager) and their producers
    gpio_queue, mcp_queue, nfc_queue,
    n_edges, n_reads,           \* sensor edges and tag reads produced so far
    emitted_barriers, emitted_nfc,  \* every event the producers created, in order
    last_trigger_time,          \* SensorReader.last_trigger_time per pin, in units of 10 ms
    wall_clock,                 \* time.time() as the interrupt callback reads it, in units of 10 ms
    n_bounced,                  \* edges the debounce test ignored so far
    \* ---- CEPConsumer
    pending_gpio_events, pending_nfc_events,
    stats,
    loop_errors,                \* iterations of run() that ended in its except branch
    deliver_calls,              \* the _deliver_event calls, in order: the sensor event and
                                \* the fused event handed to fsm.process_event, if any
    fused_pairs,                \* the (barrier, NFC) pairs _fuse_events matched, in order
    activity_log,               \* the data_logger.log_event calls of the fuser, in order
    \* ---- StationController (one per station)
    station_state,              \* StationState of each station
    current_part,               \* self.current_part
    entry_timestamp,            \* self.entry_timestamp
    process_timer,              \* the time the armed processing Timer is due, or NoTimer
    exit_timer,                 \* the armed exit Timer: when it is due and its argument
    station_log,                \* the data_logger.log_event calls of the stations, in order
    motor_commands,             \* every throttle the stations commanded, per motor, in order
    n_station_events,           \* events handed to the stations so far
    n_entry_jitter,             \* entry events handed to a station that was in ENTERING
    timer_pc,                   \* the callback a Timer thread of the station is inside, if any
    shutdown_pc                 \* how far SystemManager.stop() has come

cornerVars == <<corners_occupied, corner_last_used, corners_waiting_handshake,
                state, running, pc, jam_log, req_result, motor_speed>>

queueVars == <<gpio_queue, mcp_queue, nfc_queue, n_edges, n_reads,
               emitted_barriers, emitted_nfc, last_trigger_time, wall_clock, n_bounced>>

cepVars == <<pending_gpio_events, pending_nfc_events, stats, loop_errors,
             deliver_calls, fused_pairs, activity_log>>

stationVars == <<station_state, current_part, entry_timestamp, process_timer, exit_timer,
                 station_log, motor_commands, n_station_events, n_entry_jitter,
                 timer_pc, shutdown_pc>>

vars == <<now, cornerVars, queueVars, cepVars, stationVars>>

----------------------------------------------------------------------------
(* Bounds of the model *)

MaxTime == 3

(* Program constants *)

min_interval == 2
debounce_time == 5           \* SensorReader.debounce_time, 50 ms in units of 10 ms
Pins == {17, 27, 22, 5, 6, 13, 21, 12}   \* the Pi GPIO pins with an interrupt
conveyor_speed == 5
corner_speed == 7

Corners == 1..4
Motors == 1..8

IDLE == "idle"
FINAL_APPROACH == "final_approach"
READY_TO_PUSH == "ready_to_push"
EXTENDING == "extending"
PUSHING == "pushing"
WAITING_FOR_CONFIRMATION == "waiting_for_confirmation"
RETRACTING == "retracting"

CornerState == {IDLE, FINAL_APPROACH, READY_TO_PUSH, EXTENDING, PUSHING,
                WAITING_FOR_CONFIRMATION, RETRACTING}

----------------------------------------------------------------------------
(* CollisionManager *)

get_adjacent_corners(corner_num) ==
    CASE corner_num = 1 -> {2, 4}
      [] corner_num = 2 -> {1, 3}
      [] corner_num = 3 -> {2, 4}
      [] corner_num = 4 -> {1, 3}

\* request_corner without the check of the adjacent corners
request_corner_no_adjacent(corner_num) ==
    IF corners_occupied[corner_num] THEN FALSE
    ELSE IF now - corner_last_used[corner_num] < min_interval THEN FALSE
    ELSE TRUE

\* request_corner with the interval test off by one (<= instead of <)
request_corner_strict_interval(corner_num) ==
    IF corners_occupied[corner_num] THEN FALSE
    ELSE IF now - corner_last_used[corner_num] <= min_interval THEN FALSE
    ELSE IF \E adj \in get_adjacent_corners(corner_num) : corners_occupied[adj] THEN FALSE
    ELSE TRUE

\* request_corner that also holds a corner back for min_interval after a
\* neighbour's release
request_corner_neighbour_interval(corner_num) ==
    IF corners_occupied[corner_num] THEN FALSE
    ELSE IF now - corner_last_used[corner_num] < min_interval THEN FALSE
    ELSE IF \E adj \in get_adjacent_corners(corner_num) :
                corners_occupied[adj] \/ now - corner_last_used[adj] < min_interval THEN FALSE
    ELSE TRUE

\* The value request_corner returns; on TRUE the caller's step also reserves the corner.
request_corner(corner_num) ==
    IF corners_occupied[corner_num] THEN FALSE
    ELSE IF now - corner_last_used[corner_num] < min_interval THEN FALSE
    ELSE IF \E adj \in get_adjacent_corners(corner_num) : corners_occupied[adj] THEN FALSE
    ELSE TRUE

\* corners_occupied after request_corner(corner_num) returned `granted`
reserve(corner_num, granted) ==
    IF granted THEN [corners_occupied EXCEPT ![corner_num] = TRUE]
    ELSE corners_occupied

release_corner(corner_num) ==
    /\ corners_occupied' = [corners_occupied EXCEPT ![corner_num] = FALSE]
    /\ corner_last_used' = [corner_last_used EXCEPT ![corner_num] = now]

set_handshake_wait(corner_num) ==
    corners_waiting_handshake' = [corners_waiting_handshake EXCEPT ![corner_num] = TRUE]

clear_handshake_wait(corner_num) ==
    corners_waiting_handshake' = [corners_waiting_handshake EXCEPT ![corner_num] = FALSE]

\* is_conveyor_safe_to_stop reading the occupied flags instead of the handshake flags
is_conveyor_safe_to_stop_by_occupied(feed_motor_num) ==
    IF feed_motor_num = 1 /\ corners_occupied[2] THEN FALSE
    ELSE IF feed_motor_num = 2 /\ corners_occupied[4] THEN FALSE
    ELSE TRUE

is_conveyor_safe_to_stop(feed_motor_num) ==
    IF feed_motor_num = 1 /\ corners_waiting_handshake[2] THEN FALSE
    ELSE IF feed_motor_num = 2 /\ corners_waiting_handshake[4] THEN FALSE
    ELSE TRUE

----------------------------------------------------------------------------
(* CornerController *)

is_fed_by_main_conveyor(i) == i \in {1, 3}
feed_motor_num(i) == IF i = 1 THEN 1 ELSE 2      \* used only when is_fed_by_main_conveyor
motor_num(i) == 4 + i
push_speed == corner_speed

\* motor_speed after _stop_feed_conveyor, applied on top of the speeds m
stop_feed_conveyor(i, m) ==
    IF is_fed_by_main_conveyor(i) THEN [m EXCEPT ![feed_motor_num(i)] = 0] ELSE m

\* motor_speed after _start_feed_conveyor, applied on top of the speeds m
start_feed_conveyor(i, m) ==
    IF is_fed_by_main_conveyor(i) THEN [m EXCEPT ![feed_motor_num(i)] = conveyor_speed] ELSE m

AtLoop(i) == running[i] /\ pc[i] = "loop"

\* start() that resumes a corner in whatever state it stands
start_any_state(i) ==
    /\ pc[i] = "loop"
    /\ IF running[i]
       THEN UNCHANGED <<running, motor_speed>>
       ELSE /\ motor_speed' = start_feed_conveyor(i, motor_speed)
            /\ running' = [running EXCEPT ![i] = TRUE]
    /\ UNCHANGED <<queueVars, cepVars, stationVars, now, corners_occupied, corner_last_used, corners_waiting_handshake,
                   state, pc, jam_log, req_result>>

\* start(): refuses a corner that runs already or is not IDLE
start(i) ==
    /\ pc[i] = "loop"
    /\ IF running[i] \/ state[i] # IDLE
       THEN UNCHANGED <<running, motor_speed>>
       ELSE /\ motor_speed' = start_feed_conveyor(i, motor_speed)
            /\ running' = [running EXCEPT ![i] = TRUE]
    /\ UNCHANGED <<queueVars, cepVars, stationVars, now, corners_occupied, corner_last_used, corners_waiting_handshake,
                   state, pc, jam_log, req_result>>

\* _state_idle that stops the feed conveyor without asking the arbiter
state_idle_unchecked(i) ==
    /\ AtLoop(i) /\ state[i] = IDLE
    /\ \E corner_pos \in BOOLEAN :
        IF ~corner_pos
        THEN UNCHANGED <<state, motor_speed>>
        ELSE /\ motor_speed' = stop_feed_conveyor(i, motor_speed)
             /\ state' = [state EXCEPT ![i] = FINAL_APPROACH]
    /\ UNCHANGED <<queueVars, cepVars, stationVars, now, corners_occupied, corner_last_used, corners_waiting_handshake,
                   running, pc, jam_log, req_result>>

\* _state_idle: corner_pos is what the position sensor reads
state_idle(i) ==
    /\ AtLoop(i) /\ state[i] = IDLE
    /\ \E corner_pos \in BOOLEAN :
        IF ~corner_pos
        THEN UNCHANGED <<state, motor_speed>>
        ELSE IF is_fed_by_main_conveyor(i)
             THEN IF is_conveyor_safe_to_stop(feed_motor_num(i))
                  THEN /\ motor_speed' = stop_feed_conveyor(i, motor_speed)
                       /\ state' = [state EXCEPT ![i] = FINAL_APPROACH]
                  ELSE UNCHANGED <<state, motor_speed>>
             ELSE /\ state' = [state EXCEPT ![i] = FINAL_APPROACH]
                  /\ UNCHANGED motor_speed
    /\ UNCHANGED <<queueVars, cepVars, stationVars, now, corners_occupied, corner_last_used, corners_waiting_handshake,
                   running, pc, jam_log, req_result>>

\* _state_final_approach
state_final_approach(i) ==
    /\ AtLoop(i) /\ state[i] = FINAL_APPROACH
    /\ state' = [state EXCEPT ![i] = READY_TO_PUSH]
    /\ UNCHANGED <<queueVars, cepVars, stationVars, now, corners_occupied, corner_last_used, corners_waiting_handshake,
                   running, pc, jam_log, req_result, motor_speed>>

\* _state_ready_to_push that starts to extend whatever the arbiter answered
state_ready_to_push_unchecked(i) ==
    /\ AtLoop(i) /\ state[i] = READY_TO_PUSH
    /\ LET granted == request_corner(i) IN
        /\ corners_occupied' = reserve(i, granted)
        /\ req_result' = [req_result EXCEPT ![i] = IF granted THEN "granted" ELSE "denied"]
        /\ state' = [state EXCEPT ![i] = EXTENDING]
    /\ UNCHANGED <<queueVars, cepVars, stationVars, now, corner_last_used, corners_waiting_handshake,
                   running, pc, jam_log, motor_speed>>

\* _state_ready_to_push that calls release_corner after a refused request
state_ready_to_push_release_on_denial(i) ==
    /\ AtLoop(i) /\ state[i] = READY_TO_PUSH
    /\ LET granted == request_corner(i) IN
        /\ corners_occupied' = reserve(i, granted)
        /\ corner_last_used' = IF granted THEN corner_last_used
                               ELSE [corner_last_used EXCEPT ![i] = now]
        /\ req_result' = [req_result EXCEPT ![i] = IF granted THEN "granted" ELSE "denied"]
        /\ state' = IF granted THEN [state EXCEPT ![i] = EXTENDING] ELSE state
    /\ UNCHANGED <<queueVars, cepVars, stationVars, now, corners_waiting_handshake,
                   running, pc, jam_log, motor_speed>>

\* _state_ready_to_push
state_ready_to_push(i) ==
    /\ AtLoop(i) /\ state[i] = READY_TO_PUSH
    /\ LET granted == request_corner(i) IN
        /\ corners_occupied' = reserve(i, granted)
        /\ req_result' = [req_result EXCEPT ![i] = IF granted THEN "granted" ELSE "denied"]
        /\ state' = IF granted THEN [state EXCEPT ![i] = EXTENDING] ELSE state
    /\ UNCHANGED <<queueVars, cepVars, stationVars, now, corner_last_used, corners_waiting_handshake,
                   running, pc, jam_log, motor_speed>>

\* _state_extending, up to the first blocking wait: corner_retracted is what the
\* retract limit switch reads
state_extending_enter(i) ==
    /\ AtLoop(i) /\ state[i] = EXTENDING
    /\ \E corner_retracted \in BOOLEAN :
        IF ~corner_retracted
        THEN \* _force_retract: drive back, then wait for CORNERi_RET
             /\ motor_speed' = [motor_speed EXCEPT ![motor_num(i)] = -push_speed]
             /\ pc' = [pc EXCEPT ![i] = "extending_force_retract"]
        ELSE /\ motor_speed' = [motor_speed EXCEPT ![motor_num(i)] = push_speed]
             /\ pc' = [pc EXCEPT ![i] = "extending_wait_ext"]
    /\ req_result' = [req_result EXCEPT ![i] = "none"]    \* the local result is gone
    /\ UNCHANGED <<queueVars, cepVars, stationVars, now, corners_occupied, corner_last_used, corners_waiting_handshake,
                   state, running, jam_log>>

\* _state_extending: wait_for_mcp(CORNERi_RET) of the forced retraction returns
state_extending_force_retract_returns(i) ==
    /\ running[i] /\ state[i] = EXTENDING /\ pc[i] = "extending_force_retract"
    /\ \E success \in BOOLEAN :
        IF ~success
        THEN /\ motor_speed' = stop_feed_conveyor(i, [motor_speed EXCEPT ![motor_num(i)] = 0])
             /\ running' = [running EXCEPT ![i] = FALSE]
             /\ jam_log' = [jam_log EXCEPT ![i] = "failed_to_retract"]
             /\ pc' = [pc EXCEPT ![i] = "loop"]
        ELSE /\ motor_speed' = [motor_speed EXCEPT ![motor_num(i)] = push_speed]
             /\ pc' = [pc EXCEPT ![i] = "extending_wait_ext"]
             /\ UNCHANGED <<running, jam_log>>
    /\ UNCHANGED <<queueVars, cepVars, stationVars, now, corners_occupied, corner_last_used, corners_waiting_handshake,
                   state, req_result>>

\* _state_extending: wait_for_mcp(CORNERi_EXT) returns
state_extending_wait_returns(i) ==
    /\ running[i] /\ state[i] = EXTENDING /\ pc[i] = "extending_wait_ext"
    /\ \E extended \in BOOLEAN :
        IF ~extended
        THEN /\ release_corner(i)
             /\ motor_speed' = stop_feed_conveyor(i, [motor_speed EXCEPT ![motor_num(i)] = 0])
             /\ running' = [running EXCEPT ![i] = FALSE]
             /\ jam_log' = [jam_log EXCEPT ![i] = "timeout_extending"]
             /\ UNCHANGED state
        ELSE /\ motor_speed' = [motor_speed EXCEPT ![motor_num(i)] = 0]
             /\ state' = [state EXCEPT ![i] = PUSHING]
             /\ UNCHANGED <<corners_occupied, corner_last_used, running, jam_log>>
    /\ pc' = [pc EXCEPT ![i] = "loop"]
    /\ UNCHANGED <<queueVars, cepVars, stationVars, now, corners_waiting_handshake, req_result>>

state_extending(i) ==
    \/ state_extending_enter(i)
    \/ state_extending_force_retract_returns(i)
    \/ state_extending_wait_returns(i)

\* _state_pushing: corner_pos is what the position sensor reads
state_pushing(i) ==
    /\ AtLoop(i) /\ state[i] = PUSHING
    /\ \E corner_pos \in BOOLEAN :
        IF corner_pos
        THEN /\ clear_handshake_wait(i)
             /\ running' = [running EXCEPT ![i] = FALSE]
             /\ jam_log' = [jam_log EXCEPT ![i] = "jam_on_sensor"]
             /\ UNCHANGED state
        ELSE /\ state' = [state EXCEPT ![i] = WAITING_FOR_CONFIRMATION]
             /\ UNCHANGED <<corners_waiting_handshake, running, jam_log>>
    /\ UNCHANGED <<queueVars, cepVars, stationVars, now, corners_occupied, corner_last_used, pc, req_result, motor_speed>>

\* _state_waiting_for_confirmation, up to the blocking wait for the confirmation sensor
state_waiting_for_confirmation_enter(i) ==
    /\ AtLoop(i) /\ state[i] = WAITING_FOR_CONFIRMATION
    /\ set_handshake_wait(i)
    /\ pc' = [pc EXCEPT ![i] = "waiting_confirmation"]
    /\ UNCHANGED <<queueVars, cepVars, stationVars, now, corners_occupied, corner_last_used, state, running, jam_log,
                   req_result, motor_speed>>

\* the timeout branch of _state_waiting_for_confirmation that also frees the corner
handshake_timeout_releasing(i) ==
    /\ clear_handshake_wait(i)
    /\ release_corner(i)
    /\ running' = [running EXCEPT ![i] = FALSE]
    /\ jam_log' = [jam_log EXCEPT ![i] = "jam_no_confirmation"]
    /\ UNCHANGED <<state, motor_speed>>

\* the timeout branch of _state_waiting_for_confirmation (push_success is False)
handshake_timeout(i) ==
    /\ clear_handshake_wait(i)
    /\ running' = [running EXCEPT ![i] = FALSE]
    /\ jam_log' = [jam_log EXCEPT ![i] = "jam_no_confirmation"]
    /\ UNCHANGED <<state, corners_occupied, corner_last_used, motor_speed>>

\* _state_waiting_for_confirmation: wait_for_station_entry / wait_for_main_conveyor_start
\* returns push_success
state_waiting_for_confirmation_returns(i) ==
    /\ running[i] /\ state[i] = WAITING_FOR_CONFIRMATION /\ pc[i] = "waiting_confirmation"
    /\ \E push_success \in BOOLEAN :
        IF push_success
        THEN /\ state' = [state EXCEPT ![i] = RETRACTING]
             /\ UNCHANGED <<corners_waiting_handshake, corners_occupied, corner_last_used,
                            running, jam_log, motor_speed>>
        ELSE handshake_timeout(i)
    /\ pc' = [pc EXCEPT ![i] = "loop"]
    /\ UNCHANGED <<queueVars, cepVars, stationVars, now, req_result>>

state_waiting_for_confirmation(i) ==
    \/ state_waiting_for_confirmation_enter(i)
    \/ state_waiting_for_confirmation_returns(i)

\* _state_retracting that starts to retract without clearing the handshake flag
state_retracting_enter_keeping_flag(i) ==
    /\ AtLoop(i) /\ state[i] = RETRACTING
    /\ motor_speed' = [motor_speed EXCEPT ![motor_num(i)] = -push_speed]
    /\ pc' = [pc EXCEPT ![i] = "retracting_wait_ret"]
    /\ UNCHANGED <<queueVars, cepVars, stationVars, now, corners_occupied, corner_last_used,
                   corners_waiting_handshake, state, running, jam_log, req_result>>

\* _state_retracting, up to the blocking wait inside _force_retract
state_retracting_enter(i) ==
    /\ AtLoop(i) /\ state[i] = RETRACTING
    /\ clear_handshake_wait(i)
    /\ motor_speed' = [motor_speed EXCEPT ![motor_num(i)] = -push_speed]
    /\ pc' = [pc EXCEPT ![i] = "retracting_wait_ret"]
    /\ UNCHANGED <<queueVars, cepVars, stationVars, now, corners_occupied, corner_last_used, state, running, jam_log,
                   req_result>>

\* the failure branch of _state_retracting that also frees the corner
retract_timeout_releasing(i) ==
    /\ release_corner(i)
    /\ motor_speed' = stop_feed_conveyor(i, [motor_speed EXCEPT ![motor_num(i)] = 0])
    /\ running' = [running EXCEPT ![i] = FALSE]
    /\ jam_log' = [jam_log EXCEPT ![i] = "failed_to_retract"]
    /\ UNCHANGED state

\* the failure branch of _state_retracting (_force_retract returned False)
retract_timeout(i) ==
    /\ motor_speed' = stop_feed_conveyor(i, [motor_speed EXCEPT ![motor_num(i)] = 0])
    /\ running' = [running EXCEPT ![i] = FALSE]
    /\ jam_log' = [jam_log EXCEPT ![i] = "failed_to_retract"]
    /\ UNCHANGED <<state, corners_occupied, corner_last_used>>

\* _state_retracting: wait_for_mcp(CORNERi_RET) inside _force_retract returns
state_retracting_returns(i) ==
    /\ running[i] /\ state[i] = RETRACTING /\ pc[i] = "retracting_wait_ret"
    /\ \E success \in BOOLEAN :
        IF success
        THEN /\ release_corner(i)
             /\ state' = [state EXCEPT ![i] = IDLE]
             /\ motor_speed' = start_feed_conveyor(i, [motor_speed EXCEPT ![motor_num(i)] = 0])
             /\ UNCHANGED <<running, jam_log>>
        ELSE retract_timeout(i)
    /\ pc' = [pc EXCEPT ![i] = "loop"]
    /\ UNCHANGED <<queueVars, cepVars, stationVars, now, corners_waiting_handshake, req_result>>

state_retracting(i) ==
    \/ state_retracting_enter(i)
    \/ state_retracting_returns(i)

\* One iteration of _run, or the return of the wait the thread is blocked in
run(i) ==
    \/ state_idle(i)
    \/ state_final_approach(i)
    \/ state_ready_to_push(i)
    \/ state_extending(i)
    \/ state_pushing(i)
    \/ state_waiting_for_confirmation(i)
    \/ state_retracting(i)

\* The wall clock advances
Tick ==
    /\ now < MaxTime
    /\ now' = now + 1
    /\ UNCHANGED <<cornerVars, queueVars, cepVars, stationVars>>

Init ==
    /\ now = min_interval       \* the epoch clock is far past the initial corner_last_used
    /\ corners_occupied = [i \in Corners |-> FALSE]
    /\ corner_last_used = [i \in Corners |-> 0]
    /\ corners_waiting_handshake = [i \in Corners |-> FALSE]
    /\ state = [i \in Corners |-> IDLE]
    /\ running = [i \in Corners |-> FALSE]
    /\ pc = [i \in Corners |-> "loop"]
    /\ jam_log = [i \in Corners |-> "none"]
    /\ req_result = [i \in Corners |-> "none"]
    /\ motor_speed = [m \in Motors |-> 0]
    /\ gpio_queue = <<>> /\ mcp_queue = <<>> /\ nfc_queue = <<>>
    /\ n_edges = 0 /\ n_reads = 0
    /\ emitted_barriers = <<>> /\ emitted_nfc = <<>>
    /\ last_trigger_time = [pin \in Pins |-> 0]
    /\ n_bounced = 0
    /\ wall_clock = debounce_time   \* the epoch clock is far past the initial last_trigger_time
    /\ pending_gpio_events = <<>> /\ pending_nfc_events = <<>>
    /\ stats = [fused_events |-> 0, orphaned_gpio |-> 0, ghost_nfc |-> 0,
                total_gpio |-> 0, total_nfc |-> 0]
    /\ loop_errors = 0
    /\ deliver_calls = <<>>
    /\ fused_pairs = <<>>
    /\ activity_log = <<>>
    /\ station_state = [x \in 1..2 |-> "idle"]
    /\ current_part = [x \in 1..2 |-> "None"]   \* None
    /\ entry_timestamp = [x \in 1..2 |-> -1]
    /\ process_timer = [x \in 1..2 |-> -1]
    /\ exit_timer = [x \in 1..2 |-> <<>>]
    /\ station_log = <<>>
    /\ motor_commands = [m \in 3..4 |-> <<>>]
    /\ n_station_events = 0
    /\ n_entry_jitter = 0
    /\ timer_pc = [x \in 1..2 |-> "none"]
    /\ shutdown_pc = "running"

\* The arbiter and the four corner threads
Next ==
    \/ \E i \in Corners : start(i)
    \/ \E i \in Corners : run(i)
    \/ Tick

Spec == Init /\ [][Next]_vars

----------------------------------------------------------------------------
(* Event queues and producers (SystemManager, SensorReader, NFCReaderThread) *)

MaxBarrierEdges == 2        \* sensor edges the producers emit in a run
MaxNfcReads == 2            \* tag reads the NFC producers emit in a run
MaxEmitTime == 5            \* the producers emit until this time
MaxClock == 8               \* the fuser is observed until this time

gpio_maxsize == 100
mcp_maxsize == 100
nfc_maxsize == 20

DELTA_T_FUSE == 2
DELTA_T_EXPIRY == 5

None == "None"
Tags == {"ab", "cd"}                     \* tag UIDs as hex strings
Stations == {1, 2}

\* SensorReader.GPIO_TO_BARRIER, for the pins the model drives
GPIO_TO_BARRIER(channel) ==
    CASE channel = 17 -> "S1_ENTRY"
      [] channel = 27 -> "S1_PROCESS"
      [] channel = 22 -> "S1_EXIT"
      [] channel = 5  -> "S2_ENTRY"
      [] channel = 6  -> "S2_PROCESS"
      [] channel = 13 -> "S2_EXIT"
      [] channel = 21 -> "C1_POS"
      [] channel = 12 -> "C3_POS"

\* SensorReader.BARRIER_TO_LOCATION
BARRIER_TO_LOCATION(barrier_id) ==
    CASE barrier_id \in {"S1_ENTRY", "S1_PROCESS", "S1_EXIT"} -> <<"station", 1>>
      [] barrier_id \in {"S2_ENTRY", "S2_PROCESS", "S2_EXIT"} -> <<"station", 2>>
      [] barrier_id = "C1_POS" -> <<"corner", 1>>
      [] barrier_id = "C2_POS" -> <<"corner", 2>>
      [] barrier_id = "C3_POS" -> <<"corner", 3>>
      [] barrier_id = "C4_POS" -> <<"corner", 4>>

\* SensorReader.MCP_BARRIER_TO_LOCATION
MCP_BARRIER_TO_LOCATION(name) ==
    CASE name \in {"CORNER1_RET", "CORNER1_EXT"} -> <<"corner", 1>>
      [] name \in {"CORNER2_RET", "CORNER2_EXT"} -> <<"corner", 2>>
      [] name \in {"CORNER3_RET", "CORNER3_EXT"} -> <<"corner", 3>>
      [] name \in {"CORNER4_RET", "CORNER4_EXT"} -> <<"corner", 4>>
      [] name = "M1_START" -> <<"conveyor", 1>>
      [] name = "M2_START" -> <<"conveyor", 2>>

\* The pins and expander inputs on which the model raises edges
Channels == {17, 5, 27}
McpNames == {"M1_START"}

\* _get_barriers_for_pin with the corner barriers of the two exit pins exchanged
get_barriers_for_pin_swapped(channel) ==
    LET barrier_id == GPIO_TO_BARRIER(channel)
        primary == <<<<barrier_id, BARRIER_TO_LOCATION(barrier_id)>>>>
    IN  IF channel = 22 THEN Append(primary, <<"C2_POS", <<"corner", 2>>>>)
        ELSE IF channel = 13 THEN Append(primary, <<"C4_POS", <<"corner", 4>>>>)
        ELSE primary

\* _get_barriers_for_pin: the logical barriers of one physical pin
get_barriers_for_pin(channel) ==
    LET barrier_id == GPIO_TO_BARRIER(channel)
        primary == <<<<barrier_id, BARRIER_TO_LOCATION(barrier_id)>>>>
    IN  IF channel = 22 THEN Append(primary, <<"C4_POS", <<"corner", 4>>>>)
        ELSE IF channel = 13 THEN Append(primary, <<"C2_POS", <<"corner", 2>>>>)
        ELSE primary

\* queue.put_nowait that makes room by dropping the oldest entry
put_nowait_evicting(q, maxsize, event) ==
    IF Len(q) >= maxsize THEN Append(Tail(q), event) ELSE Append(q, event)

\* queue.put_nowait: a full queue drops the event
put_nowait(q, maxsize, event) ==
    IF Len(q) >= maxsize THEN q ELSE Append(q, event)

BarrierEvent(uid, t, barrier_id, location, source) ==
    [uid |-> uid, timestamp |-> t, barrier_id |-> barrier_id,
     location_type |-> location[1], location_id |-> location[2], source |-> source]

RECURSIVE barrier_events(_, _, _, _)
\* the events _gpio_callback creates for the logical barriers of the pin; the k-th
\* logical event of edge number `edge` is traced as <<edge, k>>
barrier_events(barriers, edge, k, t) ==
    IF barriers = <<>> THEN <<>>
    ELSE <<BarrierEvent(<<edge, k>>, t, Head(barriers)[1], Head(barriers)[2], "gpio")>>
         \o barrier_events(Tail(barriers), edge, k + 1, t)

RECURSIVE put_all(_, _, _)
\* put_nowait of each event in turn
put_all(q, maxsize, events) ==
    IF events = <<>> THEN q
    ELSE put_all(put_nowait(q, maxsize, Head(events)), maxsize, Tail(events))

\* _gpio_callback past the debounce test: one event per logical barrier of the
\* pin, stamped t_gpio and put in the queue without blocking
gpio_put_events(channel, t_gpio) ==
    /\ LET events == barrier_events(get_barriers_for_pin(channel), n_edges + 1, 1, t_gpio) IN
        /\ gpio_queue' = put_all(gpio_queue, gpio_maxsize, events)
        /\ emitted_barriers' = emitted_barriers \o events
    /\ n_edges' = n_edges + 1
    /\ UNCHANGED <<now, cornerVars, cepVars, stationVars, mcp_queue, nfc_queue, n_reads, emitted_nfc,
                   wall_clock, n_bounced>>

\* _gpio_callback for an edge that passed the debounce test
gpio_callback(channel) ==
    /\ n_edges < MaxBarrierEdges
    /\ now <= MaxEmitTime
    /\ gpio_put_events(channel, now)
    /\ UNCHANGED last_trigger_time

\* _mcp_poll_loop: the event of a rising edge seen on one expander input
mcp_put_event(name) ==
    /\ LET event == BarrierEvent(<<n_edges + 1, 1>>, now, name,
                                 MCP_BARRIER_TO_LOCATION(name), "mcp") IN
        /\ mcp_queue' = put_nowait(mcp_queue, mcp_maxsize, event)
        /\ emitted_barriers' = Append(emitted_barriers, event)
    /\ n_edges' = n_edges + 1
    /\ UNCHANGED <<now, cornerVars, cepVars, stationVars, gpio_queue, nfc_queue, n_reads, emitted_nfc,
                   last_trigger_time, wall_clock, n_bounced>>

\* _mcp_poll_loop: a rising edge seen on one expander input
mcp_poll_loop(name) ==
    /\ n_edges < MaxBarrierEdges
    /\ now <= MaxEmitTime
    /\ mcp_put_event(name)

\* NFCReaderThread.run: the event of one successful tag read
nfc_put_event(reader_num, part_id) ==
    /\ LET event == [uid |-> n_reads + 1, timestamp |-> now, station_id |-> reader_num,
                     part_id |-> part_id, reader_num |-> reader_num] IN
        /\ nfc_queue' = put_nowait(nfc_queue, nfc_maxsize, event)
        /\ emitted_nfc' = Append(emitted_nfc, event)
    /\ n_reads' = n_reads + 1
    /\ UNCHANGED <<now, cornerVars, cepVars, stationVars, gpio_queue, mcp_queue, n_edges,
                   emitted_barriers, last_trigger_time, wall_clock, n_bounced>>

\* NFCReaderThread.run: one successful tag read by the reader of a station
nfc_run(reader_num, part_id) ==
    /\ n_reads < MaxNfcReads
    /\ now <= MaxEmitTime
    /\ nfc_put_event(reader_num, part_id)

----------------------------------------------------------------------------
(* CEPConsumer *)

\* SystemManager.fsm_map: the locations that have an FSM
fsm_map == {<<"station", 1>>, <<"station", 2>>,
            <<"corner", 1>>, <<"corner", 2>>, <<"corner", 3>>, <<"corner", 4>>}

\* _is_entry_barrier that takes every barrier for an entry barrier
is_entry_barrier_every(barrier_id) == TRUE

\* _is_entry_barrier
is_entry_barrier(barrier_id) == barrier_id \in {"S1_ENTRY", "S2_ENTRY"}

\* _events_match with a window test that leaves the boundary out (>= instead of >)
events_match_open_window(gpio_event, nfc_event) ==
    IF gpio_event.location_type # "station" THEN FALSE
    ELSE IF gpio_event.location_id # nfc_event.station_id THEN FALSE
    ELSE LET d == gpio_event.timestamp - nfc_event.timestamp
             time_diff == IF d < 0 THEN -d ELSE d
         IN  IF time_diff >= DELTA_T_FUSE THEN FALSE ELSE TRUE

\* _events_match
events_match(gpio_event, nfc_event) ==
    IF gpio_event.location_type # "station" THEN FALSE
    ELSE IF gpio_event.location_id # nfc_event.station_id THEN FALSE
    ELSE LET d == gpio_event.timestamp - nfc_event.timestamp
             time_diff == IF d < 0 THEN -d ELSE d
         IN  IF time_diff > DELTA_T_FUSE THEN FALSE ELSE TRUE

\* _deliver_event that stamps the fused event with the time of delivery
deliver_event_stamped_now(sensor_event, part_id) ==
    LET fsm_key == <<sensor_event.location_type, sensor_event.location_id>> IN
    IF fsm_key \notin fsm_map THEN <<>>
    ELSE << [timestamp |-> now,
             barrier_id |-> sensor_event.barrier_id,
             part_id |-> part_id,
             location_type |-> sensor_event.location_type,
             location_id |-> sensor_event.location_id] >>

\* _deliver_event that builds and hands on the fused event whether fsm_map has
\* the key or not
deliver_event_any_key(sensor_event, part_id) ==
    << [timestamp |-> sensor_event.timestamp,
        barrier_id |-> sensor_event.barrier_id,
        part_id |-> part_id,
        location_type |-> sensor_event.location_type,
        location_id |-> sensor_event.location_id] >>

\* _deliver_event that passes no part_id on
deliver_event_no_part(sensor_event, part_id) ==
    LET fsm_key == <<sensor_event.location_type, sensor_event.location_id>> IN
    IF fsm_key \notin fsm_map THEN <<>>
    ELSE << [timestamp |-> sensor_event.timestamp,
             barrier_id |-> sensor_event.barrier_id,
             part_id |-> None,
             location_type |-> sensor_event.location_type,
             location_id |-> sensor_event.location_id] >>

\* _deliver_event: the fused event handed to fsm.process_event, or nothing when
\* fsm_map has no FSM for the location
deliver_event(sensor_event, part_id) ==
    LET fsm_key == <<sensor_event.location_type, sensor_event.location_id>> IN
    IF fsm_key \notin fsm_map THEN <<>>
    ELSE << [timestamp |-> sensor_event.timestamp,
             barrier_id |-> sensor_event.barrier_id,
             part_id |-> part_id,
             location_type |-> sensor_event.location_type,
             location_id |-> sensor_event.location_id] >>

\* what one call of _deliver_event leaves in deliver_calls
deliver_call(sensor_event, part_id) ==
    [sensor_event |-> sensor_event, part_id |-> part_id,
     handed |-> deliver_event(sensor_event, part_id)]

RECURSIVE first_match(_, _, _)
\* the inner loop of _fuse_events: index of the first pending NFC event that matches, or 0
first_match(gpio_event, nfcs, nfc_idx) ==
    IF nfc_idx > Len(nfcs) THEN 0
    ELSE IF events_match(gpio_event, nfcs[nfc_idx]) THEN nfc_idx
    ELSE first_match(gpio_event, nfcs, nfc_idx + 1)

RECURSIVE fuse_loop(_, _, _, _)
\* the outer loop of _fuse_events from gpio_idx on; acc collects the deliveries, the
\* two removal lists and the matched pairs
fuse_loop(gpios, nfcs, gpio_idx, acc) ==
    IF gpio_idx > Len(gpios) THEN acc
    ELSE LET gpio_event == gpios[gpio_idx] IN
         IF ~is_entry_barrier(gpio_event.barrier_id)
         THEN fuse_loop(gpios, nfcs, gpio_idx + 1,
                  [acc EXCEPT !.out = Append(@, deliver_call(gpio_event, None)),
                              !.gpio_to_remove = Append(@, gpio_idx)])
         ELSE LET nfc_idx == first_match(gpio_event, nfcs, 1) IN
              IF nfc_idx = 0
              THEN fuse_loop(gpios, nfcs, gpio_idx + 1, acc)
              ELSE fuse_loop(gpios, nfcs, gpio_idx + 1,
                      [acc EXCEPT !.out = Append(@, deliver_call(gpio_event,
                                                               nfcs[nfc_idx].part_id)),
                                  !.gpio_to_remove = Append(@, gpio_idx),
                                  !.nfc_to_remove = Append(@, nfc_idx),
                                  !.pairs = Append(@, <<gpio_event, nfcs[nfc_idx]>>)])

RECURSIVE insert_desc(_, _)
insert_desc(sorted, x) ==
    IF sorted = <<>> THEN <<x>>
    ELSE IF x >= Head(sorted) THEN <<x>> \o sorted
    ELSE <<Head(sorted)>> \o insert_desc(Tail(sorted), x)

\* the removal list taken in the order it was built, without the reverse sort
sorted_forward(idxs) == idxs

RECURSIVE sorted_reverse(_)
\* sorted(idxs, reverse=True)
sorted_reverse(idxs) ==
    IF idxs = <<>> THEN <<>>
    ELSE insert_desc(sorted_reverse(Tail(idxs)), Head(idxs))

remove_at(lst, idx) == SubSeq(lst, 1, idx - 1) \o SubSeq(lst, idx + 1, Len(lst))

RECURSIVE del_each(_, _)
\* "for idx in idxs: del lst[idx]": the list left, and whether a del raised IndexError
del_each(lst, idxs) ==
    IF idxs = <<>> THEN [list |-> lst, raised |-> FALSE]
    ELSE IF Head(idxs) > Len(lst) THEN [list |-> lst, raised |-> TRUE]
    ELSE del_each(remove_at(lst, Head(idxs)), Tail(idxs))

RECURSIVE select_seq_late(_, _, _)
\* the age test of _expire_events one second too lenient
select_seq_late(lst, t, expired) ==
    IF lst = <<>> THEN <<>>
    ELSE LET rest == select_seq_late(Tail(lst), t, expired) IN
         IF (t - Head(lst).timestamp > DELTA_T_EXPIRY + 1) = expired
         THEN <<Head(lst)>> \o rest ELSE rest

RECURSIVE select_seq(_, _, _)
\* the events of lst whose age at time t is (expired = TRUE) or is not beyond DELTA_T_EXPIRY
select_seq(lst, t, expired) ==
    IF lst = <<>> THEN <<>>
    ELSE LET rest == select_seq(Tail(lst), t, expired) IN
         IF (t - Head(lst).timestamp > DELTA_T_EXPIRY) = expired
         THEN <<Head(lst)>> \o rest ELSE rest

RECURSIVE orphan_records_plain(_)
\* the orphan log entries without the barrier_id in the activity name
orphan_records_plain(expired) ==
    IF expired = <<>> THEN <<>>
    ELSE << [part_id |-> "UNKNOWN",
             station_id |-> <<Head(expired).location_type, Head(expired).location_id>>,
             activity |-> <<"ERROR_ORPHAN">>,
             uid |-> Head(expired).uid] >> \o orphan_records_plain(Tail(expired))

RECURSIVE ghost_records_unknown(_)
\* the ghost log entries written with part_id UNKNOWN instead of the tag
ghost_records_unknown(expired) ==
    IF expired = <<>> THEN <<>>
    ELSE << [part_id |-> "UNKNOWN",
             station_id |-> <<"S", Head(expired).station_id>>,
             activity |-> <<"ERROR_GHOST_NFC">>,
             uid |-> Head(expired).uid] >> \o ghost_records_unknown(Tail(expired))

RECURSIVE orphan_records(_)
\* the log_event calls of _expire_events for the expired barrier events
orphan_records(expired) ==
    IF expired = <<>> THEN <<>>
    ELSE << [part_id |-> "UNKNOWN",
             station_id |-> <<Head(expired).location_type, Head(expired).location_id>>,
             activity |-> <<"ERROR_ORPHAN", Head(expired).barrier_id>>,
             uid |-> Head(expired).uid] >> \o orphan_records(Tail(expired))

RECURSIVE ghost_records(_)
\* the log_event calls of _expire_events for the expired NFC events
ghost_records(expired) ==
    IF expired = <<>> THEN <<>>
    ELSE << [part_id |-> Head(expired).part_id,
             station_id |-> <<"S", Head(expired).station_id>>,
             activity |-> <<"ERROR_GHOST_NFC">>,
             uid |-> Head(expired).uid] >> \o ghost_records(Tail(expired))

\* One iteration of CEPConsumer.run: _consume_events, _fuse_events, _expire_events.
\* An IndexError raised by a del of _fuse_events ends the iteration in the except
\* branch of run, before _expire_events.
cep_run ==
    LET \* _consume_events
        gpios == pending_gpio_events \o gpio_queue \o mcp_queue
        nfcs == pending_nfc_events \o nfc_queue
        \* _fuse_events
        acc == fuse_loop(gpios, nfcs, 1,
                         [out |-> <<>>, gpio_to_remove |-> <<>>, nfc_to_remove |-> <<>>,
                          pairs |-> <<>>])
        gpios_left == del_each(gpios, sorted_reverse(acc.gpio_to_remove))
        nfcs_left == del_each(nfcs, sorted_reverse(acc.nfc_to_remove))
        raised == gpios_left.raised \/ nfcs_left.raised
        \* _expire_events
        gpio_expired == select_seq(gpios_left.list, now, TRUE)
        nfc_expired == select_seq(nfcs_left.list, now, TRUE)
    IN  /\ gpio_queue' = <<>> /\ mcp_queue' = <<>> /\ nfc_queue' = <<>>
        /\ deliver_calls' = deliver_calls \o acc.out
        /\ fused_pairs' = fused_pairs \o acc.pairs
        /\ IF raised
           THEN /\ pending_gpio_events' = gpios_left.list
                /\ pending_nfc_events' = nfcs_left.list
                /\ loop_errors' = loop_errors + 1
                /\ activity_log' = activity_log
                /\ stats' = [stats EXCEPT
                        !.total_gpio = @ + Len(gpio_queue) + Len(mcp_queue),
                        !.total_nfc = @ + Len(nfc_queue),
                        !.fused_events = @ + Len(acc.nfc_to_remove)]
           ELSE /\ pending_gpio_events' = select_seq(gpios_left.list, now, FALSE)
                /\ pending_nfc_events' = select_seq(nfcs_left.list, now, FALSE)
                /\ loop_errors' = loop_errors
                /\ activity_log' = activity_log \o orphan_records(gpio_expired)
                                                \o ghost_records(nfc_expired)
                /\ stats' = [stats EXCEPT
                        !.total_gpio = @ + Len(gpio_queue) + Len(mcp_queue),
                        !.total_nfc = @ + Len(nfc_queue),
                        !.fused_events = @ + Len(acc.nfc_to_remove),
                        !.orphaned_gpio = @ + Len(gpio_expired),
                        !.ghost_nfc = @ + Len(nfc_expired)]
        /\ UNCHANGED <<now, cornerVars, stationVars, n_edges, n_reads,
                       emitted_barriers, emitted_nfc, last_trigger_time, wall_clock, n_bounced>>

\* The wall clock advances while the fuser is observed
TickCEP ==
    /\ now < MaxClock
    /\ now' = now + 1
    /\ UNCHANGED <<cornerVars, queueVars, cepVars, stationVars>>

\* The producers and the fuser
NextCEP ==
    \/ \E channel \in Channels : gpio_callback(channel)
    \/ \E name \in McpNames : mcp_poll_loop(name)
    \/ \E reader_num \in Stations : \E part_id \in Tags : nfc_run(reader_num, part_id)
    \/ cep_run
    \/ TickCEP

SpecCEP == Init /\ [][NextCEP]_vars

----------------------------------------------------------------------------
(* The producers alone, running ahead of a fuser that does not drain the queues *)

MaxOverrun == 2         \* events a producer creates beyond the capacity of its queue

\* the events of one source created so far
n_emitted(source) ==
    Cardinality({n \in 1..Len(emitted_barriers) : emitted_barriers[n].source = source})

\* One producer of barrier events bursts at a time: the other has not started
\* or has overrun its queue already.
burst_turn(other, other_maxsize) ==
    n_emitted(other) = 0 \/ n_emitted(other) >= other_maxsize + MaxOverrun

\* the pins a burst raises edges on: any of the two on the first edge, then the
\* dual-purpose pin of S1_EXIT
burst_channels == IF gpio_queue = <<>> THEN {17, 22} ELSE {22}

\* _gpio_callback for an edge that passed the debounce test, during a burst
gpio_burst(channel) ==
    /\ burst_turn("mcp", mcp_maxsize)
    /\ n_emitted("gpio") < gpio_maxsize + MaxOverrun
    /\ gpio_put_events(channel, now)
    /\ UNCHANGED last_trigger_time

\* _mcp_poll_loop: a rising edge seen on one expander input, during a burst
mcp_burst(name) ==
    /\ burst_turn("gpio", gpio_maxsize)
    /\ n_emitted("mcp") < mcp_maxsize + MaxOverrun
    /\ mcp_put_event(name)

\* NFCReaderThread.run: one successful tag read, during a burst
nfc_burst(reader_num, part_id) ==
    /\ n_reads < nfc_maxsize + MaxOverrun
    /\ nfc_put_event(reader_num, part_id)

NextOverrun ==
    \/ \E channel \in burst_channels : gpio_burst(channel)
    \/ mcp_burst("M1_START")
    \/ nfc_burst(1, "ab")

SpecOverrun == Init /\ [][NextOverrun]_vars

----------------------------------------------------------------------------
(* The interrupt path of SensorReader with its software debounce; time is     *)
(* wall_clock, in units of 10 ms                                              *)

MaxSensorEdges == 3     \* accepted edges
MaxSensorClock == 16    \* the last instant of wall_clock the model reaches
MaxBounces == 2         \* ignored edges

\* what an ignored edge leaves behind: nothing but the count of ignored edges
ignore_bounce ==
    /\ n_bounced < MaxBounces
    /\ n_bounced' = n_bounced + 1
    /\ UNCHANGED <<now, cornerVars, cepVars, stationVars, gpio_queue, mcp_queue, nfc_queue,
                   n_edges, n_reads, emitted_barriers, emitted_nfc, last_trigger_time, wall_clock>>

\* the pins the model raises edges on: a plain station pin, the two
\* dual-purpose exit pins and a corner pin
SensorPins == {17, 22, 13, 21}

\* _gpio_callback that restarts the debounce interval on a rejected edge
gpio_interrupt_restarting(channel) ==
    /\ n_edges < MaxSensorEdges
    /\ LET t_gpio == wall_clock IN
        IF (t_gpio - last_trigger_time[channel]) < debounce_time
        THEN /\ n_bounced < MaxBounces
             /\ n_bounced' = n_bounced + 1
             /\ last_trigger_time' = [last_trigger_time EXCEPT ![channel] = t_gpio]
             /\ UNCHANGED <<now, cornerVars, cepVars, stationVars, gpio_queue, mcp_queue, nfc_queue,
                            n_edges, n_reads, emitted_barriers, emitted_nfc, wall_clock>>
        ELSE /\ last_trigger_time' = [last_trigger_time EXCEPT ![channel] = t_gpio]
             /\ gpio_put_events(channel, t_gpio)

\* _gpio_callback: the debounce test under the lock, then the events of the pin
gpio_interrupt(channel) ==
    /\ n_edges < MaxSensorEdges
    /\ LET t_gpio == wall_clock IN
        IF (t_gpio - last_trigger_time[channel]) < debounce_time
        THEN ignore_bounce
        ELSE /\ last_trigger_time' = [last_trigger_time EXCEPT ![channel] = t_gpio]
             /\ gpio_put_events(channel, t_gpio)

TickSensor ==
    /\ wall_clock < MaxSensorClock
    /\ wall_clock' = wall_clock + 1
    /\ UNCHANGED <<now, cornerVars, cepVars, stationVars, gpio_queue, mcp_queue, nfc_queue,
                   n_edges, n_reads, emitted_barriers, emitted_nfc, last_trigger_time, n_bounced>>

NextSensor ==
    \/ \E channel \in SensorPins : gpio_interrupt(channel)
    \/ TickSensor

SpecSensor == Init /\ [][NextSensor]_vars

----------------------------------------------------------------------------
(* StationController (src/src/station_controller.py) *)

MaxStationEvents == 4       \* events handed to the two stations in a run
MaxStationClock == 10       \* the stations are observed until this time

station_speed == 4
station1_process_time == 5
station2_process_time == 7
exit_delay == 1

ENTERING == "entering"
ADVANCING_TO_PROCESS == "advancing_to_process"
PROCESSING == "processing"
ADVANCING_TO_EXIT == "advancing_to_exit"
EXITING == "exiting"

\* StationState; its IDLE has the value of CornerState.IDLE, "idle"
StationState == {IDLE, ENTERING, ADVANCING_TO_PROCESS, PROCESSING, ADVANCING_TO_EXIT,
                 EXITING}

NoTimer == -1
NoTimestamp == -1

arbiterVars == <<corners_occupied, corner_last_used, corners_waiting_handshake,
                 state, running, pc, jam_log, req_result>>

station_id(x) == IF x = 1 THEN "S1" ELSE "S2"
process_time(x) == IF x = 1 THEN station1_process_time ELSE station2_process_time
station_motor_speed(x) == IF x = 1 THEN station_speed ELSE -station_speed
station_motor_num(x) == 2 + x

entry_barrier(x) == IF x = 1 THEN "S1_ENTRY" ELSE "S2_ENTRY"
process_barrier(x) == IF x = 1 THEN "S1_PROCESS" ELSE "S2_PROCESS"
exit_barrier(x) == IF x = 1 THEN "S1_EXIT" ELSE "S2_EXIT"

\* the barriers BARRIER_TO_LOCATION routes to station x
StationBarriers(x) == {entry_barrier(x), process_barrier(x), exit_barrier(x)}

\* data_logger.log_event(part_id, station_id, activity)
log_event(log, part_id, x, activity) ==
    Append(log, [part_id |-> part_id, station_id |-> station_id(x), activity |-> activity])

\* motors.set_speed / motors.stop on the motor of station x:
\* the commands `speeds` sent in turn to the motor of station x
command_motor(x, speeds) ==
    /\ motor_commands' = [motor_commands EXCEPT ![station_motor_num(x)] = @ \o speeds]
    /\ motor_speed' = [motor_speed EXCEPT ![station_motor_num(x)] = speeds[Len(speeds)]]

\* _handle_idle that accepts an entry event without part_id
handle_idle_any_part(x, event) ==
    IF event.barrier_id # entry_barrier(x)
    THEN UNCHANGED <<station_state, current_part, entry_timestamp, station_log,
                     motor_commands, motor_speed>>
    ELSE /\ current_part' = [current_part EXCEPT ![x] = event.part_id]
         /\ entry_timestamp' = [entry_timestamp EXCEPT ![x] = event.timestamp]
         /\ station_log' = log_event(station_log, event.part_id, x, "ENTER")
         /\ command_motor(x, <<station_motor_speed(x)>>)
         /\ station_state' = [station_state EXCEPT ![x] = ENTERING]

\* _handle_idle that returns on an entry event without part_id before it logs
handle_idle_silent(x, event) ==
    IF event.barrier_id # entry_barrier(x)
    THEN UNCHANGED <<station_state, current_part, entry_timestamp, station_log,
                     motor_commands, motor_speed>>
    ELSE IF event.part_id = None
    THEN UNCHANGED <<station_state, current_part, entry_timestamp, station_log,
                     motor_commands, motor_speed>>
    ELSE /\ current_part' = [current_part EXCEPT ![x] = event.part_id]
         /\ entry_timestamp' = [entry_timestamp EXCEPT ![x] = event.timestamp]
         /\ station_log' = log_event(station_log, event.part_id, x, "ENTER")
         /\ command_motor(x, <<station_motor_speed(x)>>)
         /\ station_state' = [station_state EXCEPT ![x] = ENTERING]

handle_idle(x, event) ==
    IF event.barrier_id # entry_barrier(x)
    THEN UNCHANGED <<station_state, current_part, entry_timestamp, station_log,
                     motor_commands, motor_speed>>
    ELSE IF event.part_id = None
    THEN /\ station_log' = log_event(station_log, "UNKNOWN", x, "ERROR_NO_PART_ID")
         /\ UNCHANGED <<station_state, current_part, entry_timestamp,
                        motor_commands, motor_speed>>
    ELSE /\ current_part' = [current_part EXCEPT ![x] = event.part_id]
         /\ entry_timestamp' = [entry_timestamp EXCEPT ![x] = event.timestamp]
         /\ station_log' = log_event(station_log, event.part_id, x, "ENTER")
         /\ command_motor(x, <<station_motor_speed(x)>>)
         /\ station_state' = [station_state EXCEPT ![x] = ENTERING]

\* _start_processing: arms the processing Timer
start_processing(x) ==
    process_timer' = [process_timer EXCEPT ![x] = now + process_time(x)]

\* _handle_entering that takes a repeated entry barrier as a new entry
handle_entering_reentrant(x, event) ==
    IF event.barrier_id = entry_barrier(x)
    THEN /\ current_part' = [current_part EXCEPT ![x] = event.part_id]
         /\ entry_timestamp' = [entry_timestamp EXCEPT ![x] = event.timestamp]
         /\ UNCHANGED <<station_state, station_log, motor_commands, motor_speed,
                        process_timer>>
    ELSE IF event.barrier_id = process_barrier(x)
    THEN /\ command_motor(x, <<0>>)
         /\ station_log' = log_event(station_log, current_part[x], x, "PROCESS_START")
         /\ station_state' = [station_state EXCEPT ![x] = PROCESSING]
         /\ start_processing(x)
         /\ UNCHANGED <<current_part, entry_timestamp>>
    ELSE UNCHANGED <<station_state, current_part, entry_timestamp, station_log,
                     motor_commands, motor_speed, process_timer>>

handle_entering(x, event) ==
    IF event.barrier_id = entry_barrier(x)
    THEN UNCHANGED <<station_state, current_part, entry_timestamp, station_log,
                     motor_commands, motor_speed, process_timer>>
    ELSE IF event.barrier_id = process_barrier(x)
    THEN /\ command_motor(x, <<0>>)
         /\ station_log' = log_event(station_log, current_part[x], x, "PROCESS_START")
         /\ station_state' = [station_state EXCEPT ![x] = PROCESSING]
         /\ start_processing(x)
         /\ UNCHANGED <<current_part, entry_timestamp>>
    ELSE UNCHANGED <<station_state, current_part, entry_timestamp, station_log,
                     motor_commands, motor_speed, process_timer>>

\* _handle_advancing_to_process: pass
handle_advancing_to_process(x, event) ==
    UNCHANGED <<station_state, current_part, entry_timestamp, station_log,
                motor_commands, motor_speed>>

\* _handle_processing that takes the exit barrier as the end of processing
handle_processing_exit_ends(x, event) ==
    IF event.barrier_id = exit_barrier(x)
    THEN /\ command_motor(x, <<station_motor_speed(x)>>)
         /\ station_state' = [station_state EXCEPT ![x] = ADVANCING_TO_EXIT]
         /\ UNCHANGED <<current_part, entry_timestamp, station_log>>
    ELSE UNCHANGED <<station_state, current_part, entry_timestamp, station_log,
                     motor_commands, motor_speed>>

\* _handle_processing: every event is ignored
handle_processing(x, event) ==
    UNCHANGED <<station_state, current_part, entry_timestamp, station_log,
                motor_commands, motor_speed>>

\* _handle_advancing_to_exit without the pulse that clears the exit sensor
handle_advancing_to_exit_no_pulse(x, event) ==
    IF event.barrier_id = exit_barrier(x)
    THEN /\ command_motor(x, <<0>>)
         /\ station_state' = [station_state EXCEPT ![x] = EXITING]
         /\ exit_timer' = [exit_timer EXCEPT
                ![x] = <<[due |-> now + exit_delay, exit_timestamp |-> event.timestamp]>>]
         /\ UNCHANGED <<current_part, entry_timestamp, station_log>>
    ELSE UNCHANGED <<station_state, current_part, entry_timestamp, station_log,
                     motor_commands, motor_speed, exit_timer>>

\* _handle_advancing_to_exit: stops, restarts the motor and arms the exit Timer
handle_advancing_to_exit(x, event) ==
    IF event.barrier_id = exit_barrier(x)
    THEN /\ command_motor(x, <<0, station_motor_speed(x)>>)
         /\ station_state' = [station_state EXCEPT ![x] = EXITING]
         /\ exit_timer' = [exit_timer EXCEPT
                ![x] = <<[due |-> now + exit_delay, exit_timestamp |-> event.timestamp]>>]
         /\ UNCHANGED <<current_part, entry_timestamp, station_log>>
    ELSE UNCHANGED <<station_state, current_part, entry_timestamp, station_log,
                     motor_commands, motor_speed, exit_timer>>

\* _handle_exiting: every event is ignored
handle_exiting(x, event) ==
    UNCHANGED <<station_state, current_part, entry_timestamp, station_log,
                motor_commands, motor_speed>>

\* process_event: the fused event the CEP fuser hands to station x
process_event(x, event) ==
    /\ n_station_events < MaxStationEvents
    /\ n_station_events' = n_station_events + 1
    /\ n_entry_jitter' = IF station_state[x] = ENTERING /\ event.barrier_id = entry_barrier(x)
                         THEN n_entry_jitter + 1 ELSE n_entry_jitter
    /\ IF station_state[x] = IDLE
       THEN handle_idle(x, event) /\ UNCHANGED <<process_timer, exit_timer>>
       ELSE IF station_state[x] = ENTERING
       THEN handle_entering(x, event) /\ UNCHANGED exit_timer
       ELSE IF station_state[x] = ADVANCING_TO_PROCESS
       THEN handle_advancing_to_process(x, event) /\ UNCHANGED <<process_timer, exit_timer>>
       ELSE IF station_state[x] = PROCESSING
       THEN handle_processing(x, event) /\ UNCHANGED <<process_timer, exit_timer>>
       ELSE IF station_state[x] = ADVANCING_TO_EXIT
       THEN handle_advancing_to_exit(x, event) /\ UNCHANGED process_timer
       ELSE handle_exiting(x, event) /\ UNCHANGED <<process_timer, exit_timer>>
    /\ UNCHANGED <<now, arbiterVars, queueVars, cepVars, timer_pc, shutdown_pc>>

\* _processing_complete: the processing Timer fires, not before it is due
processing_complete(x) ==
    /\ process_timer[x] # NoTimer
    /\ now >= process_timer[x]
    /\ process_timer' = [process_timer EXCEPT ![x] = NoTimer]
    /\ station_log' = log_event(station_log, current_part[x], x, "PROCESS_END")
    /\ command_motor(x, <<station_motor_speed(x)>>)
    /\ station_state' = [station_state EXCEPT ![x] = ADVANCING_TO_EXIT]
    /\ UNCHANGED <<now, arbiterVars, queueVars, cepVars, current_part, entry_timestamp,
                   exit_timer, n_station_events, n_entry_jitter, timer_pc, shutdown_pc>>

\* _exit_complete that does not reset current_part
exit_complete_keeping_part(x) ==
    /\ exit_timer[x] # <<>>
    /\ now >= exit_timer[x][1].due
    /\ exit_timer' = [exit_timer EXCEPT ![x] = <<>>]
    /\ command_motor(x, <<0>>)
    /\ station_log' = IF current_part[x] # None
                      THEN log_event(station_log, current_part[x], x, "EXIT")
                      ELSE station_log
    /\ entry_timestamp' = [entry_timestamp EXCEPT ![x] = NoTimestamp]
    /\ station_state' = [station_state EXCEPT ![x] = IDLE]
    /\ UNCHANGED <<now, arbiterVars, queueVars, cepVars, process_timer, n_station_events,
                   n_entry_jitter, timer_pc, shutdown_pc, current_part>>

\* _exit_complete: the exit Timer fires, not before it is due
exit_complete(x) ==
    /\ exit_timer[x] # <<>>
    /\ now >= exit_timer[x][1].due
    /\ exit_timer' = [exit_timer EXCEPT ![x] = <<>>]
    /\ command_motor(x, <<0>>)
    /\ station_log' = IF current_part[x] # None
                      THEN log_event(station_log, current_part[x], x, "EXIT")
                      ELSE station_log
    /\ current_part' = [current_part EXCEPT ![x] = None]
    /\ entry_timestamp' = [entry_timestamp EXCEPT ![x] = NoTimestamp]
    /\ station_state' = [station_state EXCEPT ![x] = IDLE]
    /\ UNCHANGED <<now, arbiterVars, queueVars, cepVars, process_timer, n_station_events,
                   n_entry_jitter, timer_pc, shutdown_pc>>

\* The wall clock advances while the stations are observed
TickStation ==
    /\ now < MaxStationClock
    /\ now' = now + 1
    /\ UNCHANGED <<cornerVars, queueVars, cepVars, stationVars>>

\* The fused events process_event of station x can be called with at this time:
\* the barriers of the station with or without a part, and the barriers of the
\* other station
StationEvents(x) ==
    {[timestamp |-> now, barrier_id |-> b, part_id |-> p,
      location_type |-> "station", location_id |-> x] :
        b \in StationBarriers(x), p \in Tags \cup {None}}
    \cup
    {[timestamp |-> now, barrier_id |-> b, part_id |-> None,
      location_type |-> "station", location_id |-> 3 - x] :
        b \in StationBarriers(3 - x)}

\* The two station FSMs under the events of the fuser and their timers
NextStation ==
    \/ \E x \in Stations : \E event \in StationEvents(x) : process_event(x, event)
    \/ \E x \in Stations : processing_complete(x)
    \/ \E x \in Stations : exit_complete(x)
    \/ TickStation

SpecStation == Init /\ [][NextStation]_vars

----------------------------------------------------------------------------
(* The station FSMs with their Timer threads and SystemManager.stop().  A     *)
(* threading.Timer runs its callback on a thread of its own and              *)
(* StationController holds no lock, so a callback is two steps here and the  *)
(* fuser or the supervisor can run between them.                             *)

\* the fuser thread hands an event to the station while it runs
dispatch(x, event) ==
    /\ shutdown_pc = "running"
    /\ process_event(x, event)

\* _processing_complete up to the PROCESS_END record; the Timer has fired and
\* can be cancelled no more
processing_complete_begin(x) ==
    /\ timer_pc[x] = "none"
    /\ process_timer[x] # NoTimer
    /\ now >= process_timer[x]
    /\ process_timer' = [process_timer EXCEPT ![x] = NoTimer]
    /\ station_log' = log_event(station_log, current_part[x], x, "PROCESS_END")
    /\ timer_pc' = [timer_pc EXCEPT ![x] = "processing_complete"]
    /\ UNCHANGED <<now, arbiterVars, queueVars, cepVars, motor_speed, station_state, current_part,
                   entry_timestamp, exit_timer, motor_commands, n_station_events, n_entry_jitter,
                   shutdown_pc>>

\* _processing_complete from motors.set_speed on
processing_complete_end(x) ==
    /\ timer_pc[x] = "processing_complete"
    /\ command_motor(x, <<station_motor_speed(x)>>)
    /\ station_state' = [station_state EXCEPT ![x] = ADVANCING_TO_EXIT]
    /\ timer_pc' = [timer_pc EXCEPT ![x] = "none"]
    /\ UNCHANGED <<now, arbiterVars, queueVars, cepVars, current_part, entry_timestamp,
                   process_timer, exit_timer, station_log, n_station_events, n_entry_jitter,
                   shutdown_pc>>

\* _exit_complete up to motors.stop; the exit Timer has fired
exit_complete_begin(x) ==
    /\ timer_pc[x] = "none"
    /\ exit_timer[x] # <<>>
    /\ now >= exit_timer[x][1].due
    /\ exit_timer' = [exit_timer EXCEPT ![x] = <<>>]
    /\ command_motor(x, <<0>>)
    /\ timer_pc' = [timer_pc EXCEPT ![x] = "exit_complete"]
    /\ UNCHANGED <<now, arbiterVars, queueVars, cepVars, station_state, current_part,
                   entry_timestamp, process_timer, station_log, n_station_events, n_entry_jitter,
                   shutdown_pc>>

\* _exit_complete from the EXIT record on
exit_complete_end(x) ==
    /\ timer_pc[x] = "exit_complete"
    /\ station_log' = IF current_part[x] # None
                      THEN log_event(station_log, current_part[x], x, "EXIT")
                      ELSE station_log
    /\ current_part' = [current_part EXCEPT ![x] = None]
    /\ entry_timestamp' = [entry_timestamp EXCEPT ![x] = NoTimestamp]
    /\ station_state' = [station_state EXCEPT ![x] = IDLE]
    /\ timer_pc' = [timer_pc EXCEPT ![x] = "none"]
    /\ UNCHANGED <<now, arbiterVars, queueVars, cepVars, motor_speed, motor_commands,
                   process_timer, exit_timer, n_station_events, n_entry_jitter, shutdown_pc>>

\* SystemManager.stop: cep_consumer.stop() and join
stop_fuser ==
    /\ shutdown_pc = "running"
    /\ shutdown_pc' = "fuser_stopped"
    /\ UNCHANGED <<now, cornerVars, queueVars, cepVars, station_state, current_part,
                   entry_timestamp, process_timer, exit_timer, station_log, motor_commands,
                   n_station_events, n_entry_jitter, timer_pc>>

\* SystemManager.stop: the NFC readers and the sensor reader are stopped
stop_producers ==
    /\ shutdown_pc = "fuser_stopped"
    /\ shutdown_pc' = "producers_stopped"
    /\ UNCHANGED <<now, cornerVars, queueVars, cepVars, station_state, current_part,
                   entry_timestamp, process_timer, exit_timer, station_log, motor_commands,
                   n_station_events, n_entry_jitter, timer_pc>>

\* StationController.stop, called by SystemManager.stop for station 1, then 2:
\* cancels the processing Timer if it still waits and stops the motor
station_stop(x) ==
    /\ shutdown_pc = (IF x = 1 THEN "producers_stopped" ELSE "station1_stopped")
    /\ shutdown_pc' = (IF x = 1 THEN "station1_stopped" ELSE "station2_stopped")
    /\ process_timer' = [process_timer EXCEPT ![x] = NoTimer]
    /\ command_motor(x, <<0>>)
    /\ UNCHANGED <<now, arbiterVars, queueVars, cepVars, station_state, current_part,
                   entry_timestamp, exit_timer, station_log, n_station_events, n_entry_jitter,
                   timer_pc>>

\* SystemManager.stop: motors.stop_all(), set_speed(motor_num, 0) for motors 1..8
stop_all ==
    /\ shutdown_pc = "station2_stopped"
    /\ shutdown_pc' = "motors_stopped"
    /\ motor_speed' = [m \in Motors |-> 0]
    /\ motor_commands' = [m \in 3..4 |-> Append(motor_commands[m], 0)]
    /\ UNCHANGED <<now, arbiterVars, queueVars, cepVars, station_state, current_part,
                   entry_timestamp, process_timer, exit_timer, station_log,
                   n_station_events, n_entry_jitter, timer_pc>>

\* The fuser feeding station 1, the Timer threads and the supervisor's shutdown
NextShutdown ==
    \/ \E event \in StationEvents(1) : dispatch(1, event)
    \/ \E x \in Stations : processing_complete_begin(x)
    \/ \E x \in Stations : processing_complete_end(x)
    \/ \E x \in Stations : exit_complete_begin(x)
    \/ \E x \in Stations : exit_complete_end(x)
    \/ stop_fuser
    \/ stop_producers
    \/ \E x \in Stations : station_stop(x)
    \/ stop_all
    \/ TickStation

SpecShutdown == Init /\ [][NextShutdown]_vars

----------------------------------------------------------------------------
(* Properties of the arbiter and the corner controllers *)

Halted(i) == ~running[i] /\ state[i] # IDLE

\* C1: no corner and a corner adjacent to it are both occupied, in any reachable
\* state of the arbiter under the four corner controllers.
C1_NoAdjacentOccupied ==
    \A i \in Corners : \A j \in get_adjacent_corners(i) :
        ~(corners_occupied[i] /\ corners_occupied[j])

\* A corner holds its reservation while a neighbour was refused, after some
\* corner has already been released once.
C1_Witness ==
    \E i \in Corners : \E j \in get_adjacent_corners(i) :
        /\ corners_occupied[i]
        /\ state[j] = READY_TO_PUSH /\ req_result[j] = "denied"
        /\ \E k \in Corners : corner_last_used[k] > 0

\* C2: in every reachable state in which corner i is about to call request_corner,
\* the call returns (it never blocks) and it returns true exactly when corner i is
\* free, both adjacent corners are free and at least min_interval has passed since
\* its last release; a granted request sets occupied[i] in the same step and
\* nothing else in the arbiter, a refused one changes nothing in the arbiter.
C2_RequestCornerContract ==
    \A i \in Corners :
        (AtLoop(i) /\ state[i] = READY_TO_PUSH) =>
            LET free == /\ ~corners_occupied[i]
                        /\ \A j \in get_adjacent_corners(i) : ~corners_occupied[j]
                        /\ now - corner_last_used[i] >= min_interval
                after == IF free THEN [corners_occupied EXCEPT ![i] = TRUE]
                         ELSE corners_occupied
            IN  /\ ENABLED state_ready_to_push(i)
                /\ ~ENABLED (state_ready_to_push(i) /\
                             ~(/\ req_result'[i] = (IF free THEN "granted" ELSE "denied")
                               /\ corners_occupied' = after
                               /\ corner_last_used' = corner_last_used
                               /\ corners_waiting_handshake' = corners_waiting_handshake))

\* One corner was refused for the interval alone (itself and both neighbours free),
\* and another corner was granted.
C2_Witness ==
    /\ \E i \in Corners :
        /\ state[i] = READY_TO_PUSH /\ req_result[i] = "denied"
        /\ ~corners_occupied[i]
        /\ \A j \in get_adjacent_corners(i) : ~corners_occupied[j]
        /\ now - corner_last_used[i] < min_interval
    /\ \E k \in Corners : req_result[k] = "granted" /\ corners_occupied[k]

\* C3: a corner's reservation is cleared only by the corner's RETRACTING handler
\* when the retract limit switch was confirmed (the step that returns it to IDLE),
\* in no other state and on no timeout.
C3_ReleaseOnlyAfterRetract ==
    [][\A i \in Corners :
          (corners_occupied[i] /\ ~corners_occupied'[i]) =>
              /\ state[i] = RETRACTING
              /\ pc[i] = "retracting_wait_ret"
              /\ state'[i] = IDLE]_vars

\* C4: a corner enters EXTENDING only from READY_TO_PUSH, in the step in which its
\* own request_corner was granted and set occupied[i].
C4_ExtendingOnlyWithReservation ==
    [][\A i \in Corners :
          (state[i] # EXTENDING /\ state'[i] = EXTENDING) =>
              /\ state[i] = READY_TO_PUSH
              /\ ~corners_occupied[i]
              /\ corners_occupied'[i]
              /\ req_result'[i] = "granted"
              /\ \A j \in Corners \ {i} : corners_occupied'[j] = corners_occupied[j]]_vars

\* A corner has just entered EXTENDING with its reservation while a neighbour that
\* is ready to push was refused.
C4_Witness ==
    \E i \in Corners : \E j \in get_adjacent_corners(i) :
        /\ state[i] = EXTENDING /\ req_result[i] = "granted" /\ corners_occupied[i]
        /\ state[j] = READY_TO_PUSH /\ req_result[j] = "denied"

\* C5: after the handshake timeout in WAITING_FOR_CONFIRMATION the corner has
\* cleared its handshake flag, is halted (no step of it is possible any more, start()
\* included), still holds its reservation, and its feed motor (corners 1 and 3) is
\* stopped; the timeout step itself leaves occupied and last_used as they were.
C5_HaltedAfterHandshakeTimeout ==
    \A i \in Corners :
        jam_log[i] = "jam_no_confirmation" =>
            /\ state[i] = WAITING_FOR_CONFIRMATION
            /\ ~running[i]
            /\ ~corners_waiting_handshake[i]
            /\ corners_occupied[i]
            /\ is_fed_by_main_conveyor(i) => motor_speed[feed_motor_num(i)] = 0
            /\ motor_speed[motor_num(i)] = 0
            /\ ~ENABLED <<run(i) \/ start(i)>>_vars

\* A conveyor-fed corner is halted by the handshake timeout, and a neighbour has
\* been refused since.
C5_Witness ==
    \E i \in {1, 3} : \E j \in get_adjacent_corners(i) :
        /\ jam_log[i] = "jam_no_confirmation"
        /\ state[j] = READY_TO_PUSH /\ req_result[j] = "denied"

\* C6: after the retract timeout in RETRACTING the pusher motor and the feed
\* conveyor (if any) are stopped, the corner is halted and occupied[i] is still true.
C6_HaltedAfterRetractTimeout ==
    \A i \in Corners :
        (state[i] = RETRACTING /\ jam_log[i] = "failed_to_retract") =>
            /\ ~running[i]
            /\ motor_speed[motor_num(i)] = 0
            /\ is_fed_by_main_conveyor(i) => motor_speed[feed_motor_num(i)] = 0
            /\ corners_occupied[i]
            /\ ~ENABLED <<run(i) \/ start(i)>>_vars

\* A conveyor-fed corner is halted by the retract timeout, and a neighbour has been
\* refused since.
C6_Witness ==
    \E i \in {1, 3} : \E j \in get_adjacent_corners(i) :
        /\ state[i] = RETRACTING /\ jam_log[i] = "failed_to_retract"
        /\ state[j] = READY_TO_PUSH /\ req_result[j] = "denied"

----------------------------------------------------------------------------
(* Properties of the CEP fuser *)

EntryBarriers == {"S1_ENTRY", "S2_ENTRY"}

InSeq(x, seq) == \E k \in 1..Len(seq) : seq[k] = x

\* the _deliver_event calls that handed a fused event to an FSM
Handed == {k \in 1..Len(deliver_calls) : deliver_calls[k].handed # <<>>}

\* number of fused events handed to an FSM for the barrier event uid
Dispatches(uid) ==
    Cardinality({k \in Handed : deliver_calls[k].sensor_event.uid = uid})

\* number of ERROR_ORPHAN log entries written for the barrier event uid
OrphanLogs(uid) ==
    Cardinality({k \in 1..Len(activity_log) :
                    /\ activity_log[k].activity[1] = "ERROR_ORPHAN"
                    /\ activity_log[k].uid = uid})

\* number of barrier events the NFC event uid was fused with
Fusions(uid) ==
    Cardinality({k \in 1..Len(fused_pairs) : fused_pairs[k][2].uid = uid})

\* number of ERROR_GHOST_NFC log entries written for the NFC event uid
GhostLogs(uid) ==
    Cardinality({k \in 1..Len(activity_log) :
                    /\ activity_log[k].activity[1] = "ERROR_GHOST_NFC"
                    /\ activity_log[k].uid = uid})

\* C7: every fused event handed to an FSM carries a part_id exactly when its
\* barrier is S1_ENTRY or S2_ENTRY and the fuser paired that barrier event with an
\* NFC event (whose part_id it then carries); so a non-entry barrier is delivered
\* without part_id and an entry barrier is never delivered without one.
C7_PartIdIffFusedEntry ==
    \A k \in Handed :
        LET call == deliver_calls[k]
            e == call.handed[1]
            paired == \E p \in 1..Len(fused_pairs) :
                          /\ fused_pairs[p][1] = call.sensor_event
                          /\ fused_pairs[p][2].part_id = e.part_id
        IN  /\ e.barrier_id = call.sensor_event.barrier_id
            /\ (e.part_id # None) <=> (e.barrier_id \in EntryBarriers /\ paired)
            /\ e.barrier_id \notin EntryBarriers => e.part_id = None
            /\ e.barrier_id \in EntryBarriers => e.part_id # None

\* An entry barrier was delivered with the tag of its NFC event, and a non-entry
\* barrier was delivered without part_id.
C7_Witness ==
    /\ \E k \in Handed :
        /\ deliver_calls[k].handed[1].barrier_id \in EntryBarriers
        /\ deliver_calls[k].handed[1].part_id \in Tags
    /\ \E k \in Handed :
        /\ deliver_calls[k].handed[1].barrier_id \notin EntryBarriers
        /\ deliver_calls[k].handed[1].part_id = None

\* C8: the timestamp of every fused event handed to an FSM is the timestamp the
\* producer gave the barrier event it was built from, whatever the timestamp of
\* the matched NFC event and whenever the delivery happens.
C8_FusedTimestampIsBarrier ==
    \A k \in Handed :
        \E b \in 1..Len(emitted_barriers) :
            /\ emitted_barriers[b].uid = deliver_calls[k].sensor_event.uid
            /\ deliver_calls[k].handed[1].timestamp = emitted_barriers[b].timestamp

\* Two entry barriers were delivered, one fused with an earlier NFC event and one
\* with a later NFC event, after the clock had moved past the barrier's timestamp.
C8_Witness ==
    /\ \E p \in 1..Len(fused_pairs) :
        /\ fused_pairs[p][2].timestamp < fused_pairs[p][1].timestamp
        /\ Dispatches(fused_pairs[p][1].uid) = 1
    /\ \E p \in 1..Len(fused_pairs) :
        /\ fused_pairs[p][2].timestamp > fused_pairs[p][1].timestamp
        /\ Dispatches(fused_pairs[p][1].uid) = 1
        /\ now > fused_pairs[p][1].timestamp

\* C9: an entry barrier event that the fuser drained from its queue has no outcome
\* while it is pending and exactly one once it is not: either one fused event with
\* a part_id was handed to its FSM, or one ERROR_ORPHAN entry was logged for it;
\* never both, and never two of either.
C9_EntryDispatchedOrOrphanedOnce ==
    \A b \in 1..Len(emitted_barriers) :
        LET event == emitted_barriers[b] IN
        (event.barrier_id \in EntryBarriers /\ ~InSeq(event, gpio_queue)) =>
            /\ Dispatches(event.uid) + OrphanLogs(event.uid) <= 1
            /\ InSeq(event, pending_gpio_events)
                    <=> Dispatches(event.uid) + OrphanLogs(event.uid) = 0
            /\ \A k \in 1..Len(deliver_calls) :
                    deliver_calls[k].sensor_event.uid = event.uid =>
                        /\ k \in Handed
                        /\ deliver_calls[k].handed[1].part_id \in Tags

\* One entry barrier was dispatched with a part_id and another one was logged as
\* an orphan, both drained in the same fusion pass history.
C9_Witness ==
    /\ \E b \in 1..Len(emitted_barriers) :
        /\ emitted_barriers[b].barrier_id \in EntryBarriers
        /\ Dispatches(emitted_barriers[b].uid) = 1
    /\ \E b \in 1..Len(emitted_barriers) :
        /\ emitted_barriers[b].barrier_id \in EntryBarriers
        /\ OrphanLogs(emitted_barriers[b].uid) = 1

\* C10: an NFC event that the fuser drained from its queue has no outcome while it
\* is pending and exactly one once it is not: it was fused with exactly one entry
\* barrier, or one ERROR_GHOST_NFC entry was logged for it.
C10_NfcConsumedOnce ==
    \A n \in 1..Len(emitted_nfc) :
        LET event == emitted_nfc[n] IN
        ~InSeq(event, nfc_queue) =>
            /\ Fusions(event.uid) + GhostLogs(event.uid) <= 1
            /\ InSeq(event, pending_nfc_events)
                    <=> Fusions(event.uid) + GhostLogs(event.uid) = 0

\* C11: for each FSM the barrier events of one producer that target its location
\* are handed over in the order the producer emitted them: of two fused events
\* handed to the same location from the same source, the one handed first was
\* emitted first (so an Sx_PROCESS is never handed before the Sx_ENTRY emitted
\* ahead of it, also when the entry barrier waits in pending for its NFC event).
C11_DeliveryOrderPreserved ==
    \A k1, k2 \in Handed :
        LET first == deliver_calls[k1].sensor_event
            second == deliver_calls[k2].sensor_event
        IN  (/\ k1 < k2
             /\ first.location_type = second.location_type
             /\ first.location_id = second.location_id
             /\ first.source = second.source)
                => first.uid[1] < second.uid[1]

\* C12: every iteration of the fuser loop that completes (consume, fuse, expire
\* all ran, no exception) leaves no event in pending_gpio_events or
\* pending_nfc_events whose age now - timestamp exceeds DELTA_T_EXPIRY.
C12_NoExpiredPendingAfterTick ==
    [][(cep_run /\ loop_errors' = loop_errors) =>
            /\ \A k \in 1..Len(pending_gpio_events') :
                    now' - pending_gpio_events'[k].timestamp <= DELTA_T_EXPIRY
            /\ \A k \in 1..Len(pending_nfc_events') :
                    now' - pending_nfc_events'[k].timestamp <= DELTA_T_EXPIRY]_vars

\* A barrier and an NFC event have expired while a younger NFC event is still
\* pending.
C12_Witness ==
    /\ stats.orphaned_gpio >= 1
    /\ stats.ghost_nfc >= 1
    /\ pending_nfc_events # <<>>

AbsDiff(a, b) == IF a < b THEN b - a ELSE a - b

\* an entry barrier and an NFC event of the same station inside the fusion window
InWindow(b, n) ==
    /\ b.barrier_id \in EntryBarriers
    /\ b.location_type = "station" /\ b.location_id = n.station_id
    /\ AbsDiff(b.timestamp, n.timestamp) <= DELTA_T_FUSE

\* C13: when a fusion pass starts with exactly one barrier event b, an entry
\* barrier, and exactly one NFC event n before the fuser (queued or pending), then
\* if they are of the same station and |b.timestamp - n.timestamp| <= DELTA_T_FUSE
\* the pass hands over exactly one fused event, for b with part_id = n.part_id,
\* and leaves both pending lists empty; otherwise the pass fuses nothing.  And
\* every pair the fuser ever fused is of one station and inside the window.
C13_FusionInWindow ==
    [][cep_run =>
        /\ \A p \in 1..Len(fused_pairs') : InWindow(fused_pairs'[p][1], fused_pairs'[p][2])
        /\ LET gpios == pending_gpio_events \o gpio_queue \o mcp_queue
               nfcs == pending_nfc_events \o nfc_queue
           IN  (Len(gpios) = 1 /\ Len(nfcs) = 1
                    /\ gpios[1].barrier_id \in EntryBarriers) =>
                 IF InWindow(gpios[1], nfcs[1])
                 THEN /\ Len(deliver_calls') = Len(deliver_calls) + 1
                      /\ LET call == deliver_calls'[Len(deliver_calls')] IN
                            /\ call.sensor_event = gpios[1]
                            /\ Len(call.handed) = 1
                            /\ call.handed[1].part_id = nfcs[1].part_id
                      /\ fused_pairs' = Append(fused_pairs, <<gpios[1], nfcs[1]>>)
                      /\ stats'.fused_events = stats.fused_events + 1
                      /\ pending_gpio_events' = <<>>
                      /\ pending_nfc_events' = <<>>
                 ELSE /\ deliver_calls' = deliver_calls
                      /\ fused_pairs' = fused_pairs
                      /\ stats'.fused_events = stats.fused_events]_vars

\* The only barrier and the only NFC event of the run were fused, the NFC read
\* exactly DELTA_T_FUSE after the barrier.
C13_Witness ==
    /\ Len(emitted_barriers) = 1 /\ Len(emitted_nfc) = 1
    /\ Len(fused_pairs) = 1
    /\ fused_pairs[1][2].timestamp - fused_pairs[1][1].timestamp = DELTA_T_FUSE
    /\ pending_gpio_events = <<>> /\ pending_nfc_events = <<>>

\* the entries of log with the given first activity word
LogIndices(log, word) == {k \in 1..Len(log) : log[k].activity[1] = word}

\* the entries of log with the given first activity word written for event uid
LogIndicesOf(log, word, uid) == {k \in LogIndices(log, word) : log[k].uid = uid}

C15_OrphanBarrierLoggedOnce ==
    [][cep_run =>
        LET gpios == pending_gpio_events \o gpio_queue \o mcp_queue
            new == SubSeq(activity_log', Len(activity_log) + 1, Len(activity_log'))
            dispatched(uid) == \E k \in 1..Len(deliver_calls') :
                                    deliver_calls'[k].sensor_event.uid = uid
        IN  /\ \A k \in LogIndices(new, "ERROR_ORPHAN") :
                    \E j \in 1..Len(gpios) :
                        /\ gpios[j].uid = new[k].uid
                        /\ now - gpios[j].timestamp > DELTA_T_EXPIRY
                        /\ new[k].part_id = "UNKNOWN"
                        /\ new[k].activity = <<"ERROR_ORPHAN", gpios[j].barrier_id>>
                        /\ new[k].station_id = <<gpios[j].location_type,
                                                 gpios[j].location_id>>
                        /\ ~dispatched(gpios[j].uid)
            /\ stats'.orphaned_gpio = stats.orphaned_gpio
                                        + Cardinality(LogIndices(new, "ERROR_ORPHAN"))
            /\ \A b \in 1..Len(emitted_barriers) :
                    Cardinality(LogIndicesOf(activity_log', "ERROR_ORPHAN",
                                             emitted_barriers[b].uid)) <= 1
            /\ loop_errors' = loop_errors =>
                    \A j \in 1..Len(gpios) :
                        (gpios[j].barrier_id \in EntryBarriers
                            /\ ~dispatched(gpios[j].uid)) =>
                        IF now - gpios[j].timestamp > DELTA_T_EXPIRY
                        THEN /\ ~InSeq(gpios[j], pending_gpio_events')
                             /\ Cardinality(LogIndicesOf(new, "ERROR_ORPHAN",
                                                         gpios[j].uid)) = 1
                        ELSE /\ InSeq(gpios[j], pending_gpio_events')
                             /\ LogIndicesOf(new, "ERROR_ORPHAN", gpios[j].uid) = {}]_vars

\* An entry barrier met an NFC event of its station outside the window only and
\* was logged as an orphan, never delivered.
C15_Witness ==
    \E b \in 1..Len(emitted_barriers) :
        /\ emitted_barriers[b].barrier_id \in EntryBarriers
        /\ OrphanLogs(emitted_barriers[b].uid) = 1
        /\ Dispatches(emitted_barriers[b].uid) = 0
        /\ stats.orphaned_gpio = 1
        /\ ~InSeq(emitted_barriers[b], pending_gpio_events)
        /\ \E n \in 1..Len(emitted_nfc) :
                /\ emitted_nfc[n].station_id = emitted_barriers[b].location_id
                /\ AbsDiff(emitted_nfc[n].timestamp, emitted_barriers[b].timestamp)
                        > DELTA_T_FUSE

----------------------------------------------------------------------------
(* Properties of the station controllers *)

Cycle == <<"ENTER", "PROCESS_START", "PROCESS_END", "EXIT">>

IsCycleRecord(x, r) == r.station_id = station_id(x) /\ r.activity \in {"ENTER",
                            "PROCESS_START", "PROCESS_END", "EXIT"}

RECURSIVE CycleLog(_, _)
\* the ENTER, PROCESS_START, PROCESS_END and EXIT records of station x in log
CycleLog(x, log) ==
    IF log = <<>> THEN <<>>
    ELSE IF IsCycleRecord(x, Head(log)) THEN <<Head(log)>> \o CycleLog(x, Tail(log))
    ELSE CycleLog(x, Tail(log))

\* the entries of the activity log follow the cycle, with one part per cycle, and
\* the station is where the last entry puts it
CycleShape(x) ==
    LET L == CycleLog(x, station_log)
        n == Len(L)
    IN  /\ \A k \in 1..n :
            /\ L[k].activity = Cycle[((k - 1) % 4) + 1]
            /\ L[k].part_id \in Tags
            /\ (k % 4 # 1) => L[k].part_id = L[k - 1].part_id
        /\ n % 4 = 0 => station_state[x] = IDLE /\ current_part[x] = None
        /\ n % 4 = 1 => station_state[x] = ENTERING /\ current_part[x] = L[n].part_id
        /\ n % 4 = 2 => station_state[x] = PROCESSING /\ current_part[x] = L[n].part_id
        /\ n % 4 = 3 => /\ station_state[x] \in {ADVANCING_TO_EXIT, EXITING}
                        /\ current_part[x] = L[n].part_id

\* the five steps of the cycle of station x, each with its log entry
CycleSteps(x) ==
    /\ \A event \in StationEvents(x) :
        /\ (station_state[x] = IDLE /\ event.barrier_id = entry_barrier(x)
                /\ event.part_id # None /\ process_event(x, event)) =>
            /\ station_state'[x] = ENTERING
            /\ current_part'[x] = event.part_id
            /\ station_log' = log_event(station_log, event.part_id, x, "ENTER")
        /\ (station_state[x] = ENTERING /\ event.barrier_id = process_barrier(x)
                /\ process_event(x, event)) =>
            /\ station_state'[x] = PROCESSING
            /\ station_log' = log_event(station_log, current_part[x], x, "PROCESS_START")
            /\ process_timer'[x] = now + process_time(x)
        /\ (station_state[x] = ADVANCING_TO_EXIT /\ event.barrier_id = exit_barrier(x)
                /\ process_event(x, event)) =>
            /\ station_state'[x] = EXITING
            /\ station_log' = station_log
            /\ exit_timer'[x] # <<>>
    /\ (station_state[x] = PROCESSING /\ processing_complete(x)) =>
            /\ now >= process_timer[x]
            /\ station_state'[x] = ADVANCING_TO_EXIT
            /\ station_log' = log_event(station_log, current_part[x], x, "PROCESS_END")
    /\ (station_state[x] = EXITING /\ exit_complete(x)) =>
            /\ station_state'[x] = IDLE
            /\ station_log' = log_event(station_log, current_part[x], x, "EXIT")
            /\ current_part'[x] = None

\* C16: for each station, Sx_ENTRY with part p in IDLE logs ENTER for p, Sx_PROCESS
\* then logs PROCESS_START, the processing timer logs PROCESS_END, Sx_EXIT logs
\* nothing and the exit timer logs EXIT, each step moving to the next state and
\* the last one back to IDLE with current_part cleared; so the ENTER,
\* PROCESS_START, PROCESS_END, EXIT records of a station always follow that
\* order, once each per cycle and for the one part of the cycle.
C16_StationRoundTrip ==
    /\ [](\A x \in Stations : CycleShape(x))
    /\ [][\A x \in Stations : CycleSteps(x)]_vars

\* Station 2 went through one whole cycle on exactly three events and is IDLE
\* again with its four records.
C16_Witness ==
    /\ Len(CycleLog(2, station_log)) = 4
    /\ station_state[2] = IDLE /\ current_part[2] = None
    /\ n_station_events = 3
    /\ Len(station_log) = 4

\* C17 (as stated): when station 1 has completed one cycle and is IDLE again, the
\* commands sent to motor 3 were exactly +speed, 0, +speed, 0.
C17_FourMotorCommands ==
    (Len(CycleLog(1, station_log)) = 4 /\ station_state[1] = IDLE) =>
        motor_commands[3] = <<station_speed, 0, station_speed, 0>>

\* C17 (amended): during the first cycle of station 1 the commands sent to motor 3
\* are, phase by phase: +speed on entry, 0 on the process barrier, +speed when the
\* processing timer fires, 0 and +speed again on the exit barrier, 0 when the exit
\* timer fires; six commands in all, and the station is IDLE at the end.
C17_SixMotorCommands ==
    LET n == Len(CycleLog(1, station_log))
        s == station_speed
    IN  /\ (n = 0) => motor_commands[3] = <<>>
        /\ (n = 1) => motor_commands[3] = <<s>>
        /\ (n = 2) => motor_commands[3] = <<s, 0>>
        /\ (n = 3 /\ station_state[1] = ADVANCING_TO_EXIT) =>
                motor_commands[3] = <<s, 0, s>>
        /\ (n = 3 /\ station_state[1] = EXITING) =>
                motor_commands[3] = <<s, 0, s, 0, s>>
        /\ (n = 4) => /\ motor_commands[3] = <<s, 0, s, 0, s, 0>>
                      /\ station_state[1] = IDLE
                      /\ motor_speed[3] = 0

\* Station 1 completed one cycle.
C17_Witness ==
    /\ Len(CycleLog(1, station_log)) = 4
    /\ station_state[1] = IDLE
    /\ Len(motor_commands[3]) = 6

\* C18: a step in which station x, in ENTERING, is handed an Sx_ENTRY event (with
\* or without part_id) leaves the station's state, current_part and
\* entry_timestamp, the motor commands, the activity log and the timers as they
\* were.
C18_EntryJitterIgnored ==
    [][\A x \in Stations : \A event \in StationEvents(x) :
        (station_state[x] = ENTERING /\ event.barrier_id = entry_barrier(x)
            /\ process_event(x, event)) =>
                /\ station_state' = station_state
                /\ current_part' = current_part
                /\ entry_timestamp' = entry_timestamp
                /\ motor_commands' = motor_commands /\ motor_speed' = motor_speed
                /\ station_log' = station_log
                /\ process_timer' = process_timer /\ exit_timer' = exit_timer]_vars

\* A station in ENTERING was handed at least two entry events, the clock having
\* moved on since the entry it accepted.
C18_Witness ==
    \E x \in Stations :
        /\ station_state[x] = ENTERING
        /\ n_entry_jitter >= 2
        /\ station_state[3 - x] = IDLE /\ Len(station_log) = 1
        /\ now > entry_timestamp[x]

----------------------------------------------------------------------------
(* Further properties of the arbiter *)

\* C19: in every reachable state is_conveyor_safe_to_stop(1) is false exactly when
\* corner 2 waits for its handshake and is_conveyor_safe_to_stop(2) is false
\* exactly when corner 4 does, whatever the occupied flags and the handshake
\* flags of corners 1 and 3 are; and a step that clears the handshake flag of
\* corner 2 (corner 4) leaves the query for motor 1 (motor 2) true.
C19_SafeToStopFollowsHandshake ==
    /\ [](/\ is_conveyor_safe_to_stop(1) = ~corners_waiting_handshake[2]
          /\ is_conveyor_safe_to_stop(2) = ~corners_waiting_handshake[4])
    /\ [][/\ (corners_waiting_handshake[2] /\ ~corners_waiting_handshake'[2])
                => (~is_conveyor_safe_to_stop(1) /\ is_conveyor_safe_to_stop(1)')
          /\ (corners_waiting_handshake[4] /\ ~corners_waiting_handshake'[4])
                => (~is_conveyor_safe_to_stop(2) /\ is_conveyor_safe_to_stop(2)')]_vars

\* Corner 2 has had its handshake flag cleared and still holds its reservation
\* while corner 4 waits: motor 1 may stop, motor 2 may not.
C19_Witness ==
    /\ state[2] = RETRACTING /\ ~corners_waiting_handshake[2] /\ corners_occupied[2]
    /\ corners_waiting_handshake[4]
    /\ is_conveyor_safe_to_stop(1)
    /\ ~is_conveyor_safe_to_stop(2)

\* C20: every request_corner(j) made while an adjacent corner i is occupied
\* returns false and reserves nothing; every request_corner(j) made when both
\* neighbours of j are free (corner i released, the other neighbour free) and
\* min_interval has passed since j's own last release returns true and reserves j.
C20_NeighbourBlocksUntilReleased ==
    [][\A j \in Corners :
        state_ready_to_push(j) =>
            /\ (\E i \in get_adjacent_corners(j) : corners_occupied[i])
                  => /\ req_result'[j] = "denied"
                     /\ ~corners_occupied'[j]
                     /\ state'[j] = READY_TO_PUSH
            /\ (/\ \A i \in get_adjacent_corners(j) : ~corners_occupied[i]
                /\ now - corner_last_used[j] >= min_interval)
                  => /\ req_result'[j] = "granted"
                     /\ corners_occupied'[j]
                     /\ state'[j] = EXTENDING]_vars

\* Corner j was granted next to a corner i that had been released before, and
\* corner i, back at the arbiter, is refused while j holds its reservation.
C20_Witness ==
    \E j \in Corners : \E i \in get_adjacent_corners(j) :
        /\ req_result[j] = "granted" /\ corners_occupied[j] /\ state[j] = EXTENDING
        /\ corner_last_used[i] > 0 /\ ~corners_occupied[i]
        /\ state[i] = READY_TO_PUSH /\ req_result[i] = "denied"

\* The steps in which a handler of corner i calls release_corner(i)
CallsRelease(i) ==
    \/ state_extending_wait_returns(i) /\ ~running'[i]
    \/ state_retracting_returns(i) /\ state'[i] = IDLE

\* C21: release_corner(i) is called only by corner i while it holds the
\* reservation of corner i, and the call clears it; the reservation is set only by
\* a granted request_corner(i) and the release time moves only in such a call, so
\* no second release of corner i can come before the next granted request.
C21_OneReleasePerGrant ==
    [][\A i \in Corners :
        /\ CallsRelease(i) => (corners_occupied[i] /\ ~corners_occupied'[i])
        /\ (corner_last_used'[i] # corner_last_used[i] \/ (corners_occupied[i] /\ ~corners_occupied'[i]))
              => CallsRelease(i)
        /\ (~corners_occupied[i] /\ corners_occupied'[i])
              => (state_ready_to_push(i) /\ req_result'[i] = "granted")]_vars

\* One corner released its reservation after a confirmed retraction and another
\* on the extend timeout, each once.
C21_Witness ==
    \E i, k \in Corners :
        /\ state[i] = IDLE /\ corner_last_used[i] > 0 /\ ~corners_occupied[i]
        /\ state[k] = EXTENDING /\ jam_log[k] = "timeout_extending"
        /\ corner_last_used[k] > 0 /\ ~corners_occupied[k]

----------------------------------------------------------------------------
(* Properties of the producers *)

\* q is an initial segment of r
IsPrefix(q, r) == Len(q) <= Len(r) /\ \A n \in 1..Len(q) : q[n] = r[n]

\* what a producer step may do to its queue: keep every entry where it is, and
\* leave a full queue as it is
QueueKept(q, r, maxsize) ==
    /\ IsPrefix(q, r)
    /\ Len(q) >= maxsize => r = q

\* C22: no queue ever holds more than its capacity; a producer is never blocked
\* by a full queue (its step is enabled and the event is created all the same);
\* and no producer step removes or moves an entry that is queued, a step on a
\* full queue leaving the queue as it is.
C22_BoundedQueuesDropOnFull ==
    /\ [](/\ Len(gpio_queue) <= gpio_maxsize
          /\ Len(mcp_queue) <= mcp_maxsize
          /\ Len(nfc_queue) <= nfc_maxsize
          /\ Len(gpio_queue) = gpio_maxsize => ENABLED gpio_put_events(22, now)
          /\ Len(mcp_queue) = mcp_maxsize => ENABLED mcp_put_event("M1_START")
          /\ Len(nfc_queue) = nfc_maxsize => ENABLED nfc_put_event(1, "ab"))
    /\ [][/\ QueueKept(gpio_queue, gpio_queue', gpio_maxsize)
          /\ QueueKept(mcp_queue, mcp_queue', mcp_maxsize)
          /\ QueueKept(nfc_queue, nfc_queue', nfc_maxsize)
          /\ IsPrefix(emitted_barriers, emitted_barriers')
          /\ IsPrefix(emitted_nfc, emitted_nfc')
          /\ Len(emitted_barriers') + Len(emitted_nfc')
                > Len(emitted_barriers) + Len(emitted_nfc)]_vars

\* All three queues are full and each producer has dropped an event; the last
\* edge that fitted was one on the pin of S1_EXIT whose C4_POS event was dropped.
C22_Witness ==
    /\ Len(gpio_queue) = gpio_maxsize
    /\ Len(mcp_queue) = mcp_maxsize
    /\ Len(nfc_queue) = nfc_maxsize
    /\ Len(emitted_nfc) > nfc_maxsize
    /\ n_emitted("mcp") > mcp_maxsize
    /\ n_emitted("gpio") > gpio_maxsize + 1
    /\ gpio_queue[gpio_maxsize].barrier_id = "S1_EXIT"

\* the pin whose interrupt creates the barrier's events
pin_of(barrier_id) ==
    CASE barrier_id \in {"S1_ENTRY"} -> 17
      [] barrier_id \in {"S1_EXIT", "C4_POS"} -> 22
      [] barrier_id \in {"S2_EXIT", "C2_POS"} -> 13
      [] barrier_id \in {"C1_POS"} -> 21

\* C23: an edge on a pin that comes less than 50 ms after the last accepted edge
\* on that pin creates no event and leaves last_trigger_time as it is, whatever
\* happened on the other pins in between; an edge at 50 ms or later is accepted,
\* becomes the pin's reference time and creates its events; and any two events
\* of one barrier created by the interrupt path are at least 50 ms apart.
C23_DebouncePerPin ==
    /\ [](\A m, n \in 1..Len(emitted_barriers) :
            (/\ m < n
             /\ emitted_barriers[m].source = "gpio" /\ emitted_barriers[n].source = "gpio"
             /\ emitted_barriers[m].barrier_id = emitted_barriers[n].barrier_id)
                => emitted_barriers[n].timestamp - emitted_barriers[m].timestamp >= debounce_time)
    /\ [][\A channel \in SensorPins :
            gpio_interrupt(channel) =>
                IF wall_clock - last_trigger_time[channel] < debounce_time
                THEN /\ n_bounced' = n_bounced + 1
                     /\ emitted_barriers' = emitted_barriers
                     /\ gpio_queue' = gpio_queue
                     /\ last_trigger_time' = last_trigger_time
                ELSE /\ Len(emitted_barriers') > Len(emitted_barriers)
                     /\ last_trigger_time' = [last_trigger_time EXCEPT ![channel] = wall_clock]]_vars

\* A pin was accepted twice exactly 50 ms apart, an edge on another pin was
\* accepted between the two, the pin is inside its debounce interval again and
\* an edge was ignored.
C23_Witness ==
    /\ Len(emitted_barriers) >= 3
    /\ \E m, n \in 1..Len(emitted_barriers) : \E k \in 1..Len(emitted_barriers) :
        /\ m < k /\ k < n
        /\ emitted_barriers[m].barrier_id = emitted_barriers[n].barrier_id
        /\ emitted_barriers[n].timestamp - emitted_barriers[m].timestamp = debounce_time
        /\ pin_of(emitted_barriers[k].barrier_id) # pin_of(emitted_barriers[m].barrier_id)
        /\ emitted_barriers[m].timestamp < emitted_barriers[k].timestamp
        /\ emitted_barriers[k].timestamp < emitted_barriers[n].timestamp
        /\ wall_clock - last_trigger_time[pin_of(emitted_barriers[n].barrier_id)] \in 1..(debounce_time - 1)
    /\ n_bounced > 0

\* the events a step added to emitted_barriers, as <<barrier_id, location_type,
\* location_id, timestamp>>
NewBarriers ==
    [n \in 1..(Len(emitted_barriers') - Len(emitted_barriers)) |->
        LET e == emitted_barriers'[Len(emitted_barriers) + n]
        IN  <<e.barrier_id, e.location_type, e.location_id, e.timestamp>>]

\* the one barrier of a pin that is not an exit pin
SingleBarrier(channel) ==
    CASE channel = 17 -> <<"S1_ENTRY", "station", 1>>
      [] channel = 27 -> <<"S1_PROCESS", "station", 1>>
      [] channel = 5  -> <<"S2_ENTRY", "station", 2>>
      [] channel = 6  -> <<"S2_PROCESS", "station", 2>>
      [] channel = 21 -> <<"C1_POS", "corner", 1>>
      [] channel = 12 -> <<"C3_POS", "corner", 3>>

\* C24: an accepted edge on pin 22 creates S1_EXIT for (station,1) and C4_POS for
\* (corner,4), one on pin 13 creates S2_EXIT for (station,2) and C2_POS for
\* (corner,2), both events of a pair with the time of the edge; an accepted edge
\* on any other pin creates exactly one event, that of its own barrier.
C24_DualMappedExitPins ==
    /\ [](/\ get_barriers_for_pin(22) = << <<"S1_EXIT", <<"station", 1>>>>, <<"C4_POS", <<"corner", 4>>>> >>
          /\ get_barriers_for_pin(13) = << <<"S2_EXIT", <<"station", 2>>>>, <<"C2_POS", <<"corner", 2>>>> >>
          /\ \A channel \in Pins \ {22, 13} :
                get_barriers_for_pin(channel)
                    = << <<SingleBarrier(channel)[1],
                           <<SingleBarrier(channel)[2], SingleBarrier(channel)[3]>>>> >>)
    /\ [][\A channel \in SensorPins :
            (gpio_interrupt(channel) /\ n_edges' = n_edges + 1) =>
                LET t == wall_clock IN
                CASE channel = 22 ->
                        NewBarriers = << <<"S1_EXIT", "station", 1, t>>, <<"C4_POS", "corner", 4, t>> >>
                  [] channel = 13 ->
                        NewBarriers = << <<"S2_EXIT", "station", 2, t>>, <<"C2_POS", "corner", 2, t>> >>
                  [] OTHER ->
                        NewBarriers = << SingleBarrier(channel) \o <<t>> >>]_vars

\* Edges on both exit pins and on a plain pin were accepted: five events from
\* three edges, all of them queued.
C24_Witness ==
    /\ n_edges = 3 /\ Len(emitted_barriers) = 5 /\ Len(gpio_queue) = 5
    /\ \E a, b \in 1..4 :
        /\ emitted_barriers[a].barrier_id = "S1_EXIT" /\ emitted_barriers[a + 1].barrier_id = "C4_POS"
        /\ emitted_barriers[a].timestamp = emitted_barriers[a + 1].timestamp
        /\ emitted_barriers[b].barrier_id = "S2_EXIT" /\ emitted_barriers[b + 1].barrier_id = "C2_POS"
        /\ emitted_barriers[b].timestamp = emitted_barriers[b + 1].timestamp

----------------------------------------------------------------------------
(* Further properties of the fuser *)

\* the positions in deliver_calls of the calls made for the barrier event
CallsFor(event) ==
    {k \in 1..Len(deliver_calls) : deliver_calls[k].sensor_event = event}

\* C28: a barrier event whose location has no FSM in fsm_map is, by the pass that
\* drained it, given to _deliver_event once, handed to no FSM and taken off the
\* pending barriers; and the pass goes on: every other barrier event that is not
\* an entry barrier is also delivered once by the pass that drained it.
C28_UnknownLocationDropped ==
    \A n \in 1..Len(emitted_barriers) :
        LET event == emitted_barriers[n] IN
        (~is_entry_barrier(event.barrier_id) /\ ~InSeq(event, gpio_queue \o mcp_queue)) =>
            /\ Cardinality(CallsFor(event)) = 1
            /\ ~InSeq(event, pending_gpio_events)
            /\ <<event.location_type, event.location_id>> \notin fsm_map
                  => \A k \in CallsFor(event) : deliver_calls[k].handed = <<>>
            /\ <<event.location_type, event.location_id>> \in fsm_map
                  => \A k \in CallsFor(event) : deliver_calls[k].handed # <<>>

\* The fuser drained an event of the conveyor input M1_START, which has no FSM,
\* dropped it, and the next event it delivered, a station barrier, was handed to
\* its FSM; nothing is left pending.
C28_Witness ==
    /\ pending_gpio_events = <<>> /\ gpio_queue = <<>> /\ mcp_queue = <<>>
    /\ \E k \in 1..(Len(deliver_calls) - 1) :
        /\ deliver_calls[k].sensor_event.location_type = "conveyor"
        /\ deliver_calls[k].handed = <<>>
        /\ deliver_calls[k + 1].sensor_event.location_type = "station"
        /\ deliver_calls[k + 1].handed # <<>>

----------------------------------------------------------------------------
(* Further properties of the stations *)

\* C29: a station in IDLE that is handed its entry barrier without a part_id
\* appends exactly one ERROR_NO_PART_ID record to the activity log, commands no
\* motor, keeps current_part and entry_timestamp unset and stays in IDLE.
C29_EntryWithoutPartIgnored ==
    [][\A x \in Stations : \A event \in StationEvents(x) :
        (/\ station_state[x] = IDLE
         /\ event.barrier_id = entry_barrier(x)
         /\ event.part_id = None
         /\ process_event(x, event)) =>
            /\ Len(station_log') = Len(station_log) + 1
            /\ SubSeq(station_log', 1, Len(station_log)) = station_log
            /\ station_log'[Len(station_log')].activity = "ERROR_NO_PART_ID"
            /\ station_log'[Len(station_log')].station_id = station_id(x)
            /\ motor_commands' = motor_commands
            /\ motor_speed' = motor_speed
            /\ current_part'[x] = None
            /\ entry_timestamp'[x] = NoTimestamp
            /\ station_state'[x] = IDLE]_vars

\* A station that logged ERROR_NO_PART_ID is idle, holds no part and its motor
\* was never commanded; the same station was handed such an entry twice.
C29_Witness ==
    \E x \in Stations :
        /\ station_state[x] = IDLE /\ current_part[x] = None
        /\ motor_commands[station_motor_num(x)] = <<>>
        /\ Len(station_log) = 2
        /\ \A k \in 1..2 : /\ station_log[k].activity = "ERROR_NO_PART_ID"
                           /\ station_log[k].station_id = station_id(x)

\* the events the transition table of the station has no row for in the state
\* the station is in, and those of its row "IDLE, any other"
Unlisted(x, event) ==
    CASE station_state[x] = IDLE -> event.barrier_id # entry_barrier(x)
      [] station_state[x] = ENTERING ->
            event.barrier_id \notin {entry_barrier(x), process_barrier(x)}
      [] station_state[x] = ADVANCING_TO_EXIT -> event.barrier_id # exit_barrier(x)
      [] OTHER -> TRUE

\* C30: in every state of a station, an event without a row in the transition
\* table for that state (a barrier of the other station, the exit barrier while
\* PROCESSING, an entry with a new part while not IDLE, ...) leaves the state,
\* current_part and entry_timestamp of the station as they are and commands no
\* motor.
C30_UnlistedEventIgnored ==
    [][\A x \in Stations : \A event \in StationEvents(x) :
        (Unlisted(x, event) /\ process_event(x, event)) =>
            /\ station_state' = station_state
            /\ current_part' = current_part
            /\ entry_timestamp' = entry_timestamp
            /\ motor_commands' = motor_commands
            /\ motor_speed' = motor_speed]_vars

\* A station that is PROCESSING a part has been handed four events since the
\* part entered and stopped at the process barrier, and still waits for its
\* timer with the part it had; the other station is idle.
C30_Witness ==
    \E x \in Stations :
        /\ station_state[x] = PROCESSING /\ current_part[x] # None
        /\ process_timer[x] # NoTimer
        /\ n_station_events = MaxStationEvents /\ n_entry_jitter = 0
        /\ Len(station_log) = 2
        /\ motor_commands[station_motor_num(x)] = <<station_motor_speed(x), 0>>
        /\ station_state[3 - x] = IDLE /\ motor_commands[station_motor_num(3 - x)] = <<>>

----------------------------------------------------------------------------
(* Properties of the Timer threads and of the shutdown *)

\* StationController.stop() of station x has run
StationStopped(x) ==
    shutdown_pc \in (IF x = 1 THEN {"station1_stopped"} ELSE {})
                    \cup {"station2_stopped", "motors_stopped"}

\* C25: the fuser never runs process_event of a station while a Timer callback
\* of that station is part-way through: the writers of the station's state,
\* current_part and entry_timestamp are serialized.
C25_TimerAndFuserSerialized ==
    [][\A x \in Stations :
        (timer_pc[x] # "none" /\ n_station_events' # n_station_events) =>
            ~(\E event \in StationEvents(x) : dispatch(x, event))]_vars

\* C26: once StationController.stop() of a station has run, no Timer callback of
\* that station starts: no step but the supervisor's own changes the station's
\* state, the activity log or the commands sent to the station's motor.
C26_NoCallbackAfterStop ==
    [][\A x \in Stations :
        (StationStopped(x) /\ timer_pc[x] = "none" /\ shutdown_pc' = shutdown_pc) =>
            /\ timer_pc'[x] = "none"
            /\ station_state'[x] = station_state[x]
            /\ station_log' = station_log
            /\ motor_commands'[station_motor_num(x)] = motor_commands[station_motor_num(x)]]_vars

\* C27: once SystemManager.stop() has run stop_all(), the last speed commanded
\* to every motor is 0, and stays 0.
C27_MotorsStayStoppedAfterShutdown ==
    shutdown_pc = "motors_stopped" =>
        /\ \A m \in Motors : motor_speed[m] = 0
        /\ \A m \in 3..4 : motor_commands[m][Len(motor_commands[m])] = 0

----------------------------------------------------------------------------
(* The corner controllers with the success branch of _state_retracting taken
   statement by statement: the other corner threads run between the stop of the
   pusher, the release of the reservation, the change of state and the restart
   of the feed conveyor. *)

\* _force_retract returned True with the feed conveyor restarted at once
retract_confirmed_restarting(i) ==
    /\ running[i] /\ state[i] = RETRACTING /\ pc[i] = "retracting_wait_ret"
    /\ motor_speed' = start_feed_conveyor(i, [motor_speed EXCEPT ![motor_num(i)] = 0])
    /\ pc' = [pc EXCEPT ![i] = "retract_release"]
    /\ UNCHANGED <<queueVars, cepVars, stationVars, now, corners_occupied, corner_last_used,
                   corners_waiting_handshake, state, running, jam_log, req_result>>

\* _force_retract: wait_for_mcp(CORNERi_RET) returned True, the pusher motor is stopped
retract_confirmed(i) ==
    /\ running[i] /\ state[i] = RETRACTING /\ pc[i] = "retracting_wait_ret"
    /\ motor_speed' = [motor_speed EXCEPT ![motor_num(i)] = 0]
    /\ pc' = [pc EXCEPT ![i] = "retract_release"]
    /\ UNCHANGED <<queueVars, cepVars, stationVars, now, corners_occupied, corner_last_used,
                   corners_waiting_handshake, state, running, jam_log, req_result>>

\* _force_retract: wait_for_mcp(CORNERi_RET) timed out
retract_failed(i) ==
    /\ running[i] /\ state[i] = RETRACTING /\ pc[i] = "retracting_wait_ret"
    /\ retract_timeout(i)
    /\ pc' = [pc EXCEPT ![i] = "loop"]
    /\ UNCHANGED <<queueVars, cepVars, stationVars, now, corners_waiting_handshake, req_result>>

\* _state_retracting: collision_mgr.release_corner(corner_num)
retract_release(i) ==
    /\ pc[i] = "retract_release"
    /\ release_corner(i)
    /\ pc' = [pc EXCEPT ![i] = "retract_set_idle"]
    /\ UNCHANGED <<queueVars, cepVars, stationVars, now, corners_waiting_handshake, state, running,
                   jam_log, req_result, motor_speed>>

\* _state_retracting: self.state = CornerState.IDLE
retract_set_idle(i) ==
    /\ pc[i] = "retract_set_idle"
    /\ state' = [state EXCEPT ![i] = IDLE]
    /\ pc' = [pc EXCEPT ![i] = "retract_restart"]
    /\ UNCHANGED <<queueVars, cepVars, stationVars, now, corners_occupied, corner_last_used,
                   corners_waiting_handshake, running, jam_log, req_result, motor_speed>>

\* _state_retracting: self._start_feed_conveyor()
retract_restart_feed(i) ==
    /\ pc[i] = "retract_restart"
    /\ motor_speed' = start_feed_conveyor(i, motor_speed)
    /\ pc' = [pc EXCEPT ![i] = "loop"]
    /\ UNCHANGED <<queueVars, cepVars, stationVars, now, corners_occupied, corner_last_used,
                   corners_waiting_handshake, state, running, jam_log, req_result>>

\* One step of the thread of corner i
run_steps(i) ==
    \/ state_idle(i)
    \/ state_final_approach(i)
    \/ state_ready_to_push(i)
    \/ state_extending(i)
    \/ state_pushing(i)
    \/ state_waiting_for_confirmation(i)
    \/ state_retracting_enter(i)
    \/ retract_confirmed(i)
    \/ retract_failed(i)
    \/ retract_release(i)
    \/ retract_set_idle(i)
    \/ retract_restart_feed(i)

NextRetract ==
    \/ \E i \in Corners : start(i)
    \/ \E i \in Corners : run_steps(i)
    \/ Tick

SpecRetract == Init /\ [][NextRetract]_vars

----------------------------------------------------------------------------
(* Further properties of the corner controllers *)

\* C31: a corner leaves IDLE only for FINAL_APPROACH; corner 1 or 3 does so only
\* when is_conveyor_safe_to_stop(feed motor) is true, and the same step stops its
\* feed motor; while the query is false a running corner 1 or 3 stays IDLE and
\* its feed motor keeps its speed.  Corner 2 or 4 at its loop in IDLE can always
\* move to FINAL_APPROACH, and does so without a motor command; the speed of
\* motor 1 (motor 2) changes only in a step of corner 1 (corner 3).
C31_IdleStopsFeedOnlyWhenSafe ==
    /\ [](\A i \in {2, 4} :
            (AtLoop(i) /\ state[i] = IDLE)
                => ENABLED (state_idle(i) /\ state'[i] = FINAL_APPROACH))
    /\ [][\A i \in Corners :
            /\ (state[i] = IDLE /\ state'[i] # IDLE)
                  => /\ state'[i] = FINAL_APPROACH
                     /\ IF is_fed_by_main_conveyor(i)
                        THEN /\ is_conveyor_safe_to_stop(feed_motor_num(i))
                             /\ motor_speed' = [motor_speed EXCEPT ![feed_motor_num(i)] = 0]
                        ELSE motor_speed' = motor_speed
            /\ (/\ running[i] /\ state[i] = IDLE /\ is_fed_by_main_conveyor(i)
                /\ ~is_conveyor_safe_to_stop(feed_motor_num(i)))
                  => /\ state'[i] = IDLE
                     /\ motor_speed'[feed_motor_num(i)] = motor_speed[feed_motor_num(i)]
            /\ (is_fed_by_main_conveyor(i)
                /\ motor_speed'[feed_motor_num(i)] # motor_speed[feed_motor_num(i)])
                  => (start(i) \/ run(i))]_vars

\* Corner 1 runs in IDLE with motor 1 at conveyor speed while corner 2 waits for
\* its handshake, and corner 3 has stopped motor 2 and left IDLE.
C31_Witness ==
    /\ running[1] /\ state[1] = IDLE /\ motor_speed[1] = conveyor_speed
    /\ corners_waiting_handshake[2] /\ ~is_conveyor_safe_to_stop(1)
    /\ state[3] = FINAL_APPROACH /\ motor_speed[2] = 0
    /\ is_conveyor_safe_to_stop(2)

\* The statements of the success branch of _state_retracting still to run
RetractTail == {"retract_release", "retract_set_idle", "retract_restart"}

\* C32: once CORNERi_RET has arrived in time corner i stops its pusher motor,
\* then releases its reservation in one call that finds it set, then becomes IDLE,
\* then restarts its feed motor at conveyor speed if it has one, and is back at
\* its loop in IDLE; each of these statements can always run when it is next, the
\* reservation and the release time change in no other step on the way, and the
\* feed motor of corner 1 or 3 stands still as long as the corner is reserved.
C32_RetractReleasesThenRestarts ==
    /\ [](\A i \in Corners :
            /\ (is_fed_by_main_conveyor(i) /\ corners_occupied[i])
                  => motor_speed[feed_motor_num(i)] = 0
            /\ pc[i] = "retract_release"
                  => (corners_occupied[i] /\ state[i] = RETRACTING /\ ENABLED retract_release(i))
            /\ pc[i] = "retract_set_idle"
                  => (~corners_occupied[i] /\ state[i] = RETRACTING /\ ENABLED retract_set_idle(i))
            /\ pc[i] = "retract_restart"
                  => (~corners_occupied[i] /\ state[i] = IDLE /\ ENABLED retract_restart_feed(i))
            /\ pc[i] \in RetractTail
                  => (running[i] /\ motor_speed[motor_num(i)] = 0 /\ ~corners_waiting_handshake[i]))
    /\ [][\A i \in Corners :
            /\ retract_confirmed(i)
                  => (motor_speed'[motor_num(i)] = 0 /\ pc'[i] = "retract_release")
            /\ pc[i] = "retract_release" /\ pc'[i] # pc[i]
                  => /\ corners_occupied[i] /\ ~corners_occupied'[i]
                     /\ corner_last_used'[i] = now
                     /\ motor_speed' = motor_speed
                     /\ pc'[i] = "retract_set_idle"
            /\ pc[i] = "retract_set_idle" /\ pc'[i] # pc[i]
                  => (state'[i] = IDLE /\ pc'[i] = "retract_restart")
            /\ pc[i] = "retract_restart" /\ pc'[i] # pc[i]
                  => /\ pc'[i] = "loop" /\ state'[i] = IDLE /\ running'[i]
                     /\ motor_speed' = IF is_fed_by_main_conveyor(i)
                                       THEN [motor_speed EXCEPT ![feed_motor_num(i)] = conveyor_speed]
                                       ELSE motor_speed
            /\ (pc[i] \in RetractTail /\ pc'[i] = pc[i])
                  => /\ corners_occupied'[i] = corners_occupied[i]
                     /\ corner_last_used'[i] = corner_last_used[i]
                     /\ state'[i] = state[i]
                     /\ motor_speed'[motor_num(i)] = motor_speed[motor_num(i)]]_vars

\* Corner 1 has gone through a confirmed retraction: it is IDLE at its loop, its
\* reservation released, its pusher stopped and motor 1 running again, while
\* corner 3 has released and not yet restarted motor 2.
C32_Witness ==
    /\ state[1] = IDLE /\ pc[1] = "loop" /\ running[1]
    /\ ~corners_occupied[1] /\ corner_last_used[1] > 0
    /\ motor_speed[5] = 0 /\ motor_speed[1] = conveyor_speed
    /\ pc[3] = "retract_restart" /\ ~corners_occupied[3] /\ motor_speed[2] = 0

\* C36: between two handlers, a corner whose state is EXTENDING, PUSHING,
\* WAITING_FOR_CONFIRMATION or RETRACTING holds its reservation, whether its
\* thread still runs or has halted.
C36_ActiveCornerIsReserved ==
    \A i \in Corners :
        state[i] \in {EXTENDING, PUSHING, WAITING_FOR_CONFIRMATION, RETRACTING}
            => corners_occupied[i]

\* C37: in every reachable state, also between the statements of a retraction,
\* waiting_handshake[i] implies occupied[i]; the flag is set only by corner i in
\* WAITING_FOR_CONFIRMATION while it holds its reservation, and a step that
\* releases the reservation finds the flag cleared already.
C37_HandshakeOnlyWhileReserved ==
    /\ [](\A i \in Corners : corners_waiting_handshake[i] => corners_occupied[i])
    /\ [][\A i \in Corners :
            /\ (~corners_waiting_handshake[i] /\ corners_waiting_handshake'[i])
                  => /\ state[i] = WAITING_FOR_CONFIRMATION
                     /\ corners_occupied[i] /\ corners_occupied'[i]
            /\ (corners_occupied[i] /\ ~corners_occupied'[i])
                  => (~corners_waiting_handshake[i] /\ ~corners_waiting_handshake'[i])]_vars

\* Corner i waits for its handshake and holds its reservation, while another
\* corner has waited, had its flag cleared when it began to retract and released
\* its reservation afterwards.
C37_Witness ==
    \E i, k \in Corners :
        /\ corners_waiting_handshake[i] /\ corners_occupied[i]
        /\ state[i] = WAITING_FOR_CONFIRMATION
        /\ pc[k] = "retract_set_idle"
        /\ ~corners_waiting_handshake[k] /\ ~corners_occupied[k]

\* Corner i has halted on a handshake jam or a retract jam and holds its reservation
JamLocked(i) ==
    /\ ~running[i] /\ corners_occupied[i]
    /\ \/ state[i] = WAITING_FOR_CONFIRMATION /\ jam_log[i] = "jam_no_confirmation"
       \/ state[i] = RETRACTING /\ jam_log[i] = "failed_to_retract"

\* C39: a corner i that has halted on a handshake or retract jam with its
\* reservation stays so in every later state: no step, start(i) included, makes
\* it run again, changes its state or clears occupied[i]; and as long as it is
\* so, request_corner(j) is false for each adjacent corner j, no such j becomes
\* occupied or enters EXTENDING, and a j in READY_TO_PUSH stays there.
C39_JamLocksNeighboursForever ==
    /\ [](\A i \in Corners : JamLocked(i) =>
            /\ ~ENABLED (start(i) /\ running'[i])
            /\ \A j \in get_adjacent_corners(i) :
                  ~request_corner(j) /\ ~corners_occupied[j])
    /\ [][\A i \in Corners : JamLocked(i) =>
            /\ JamLocked(i)'
            /\ state'[i] = state[i]
            /\ \A j \in get_adjacent_corners(i) :
                  /\ state'[j] = EXTENDING => state[j] = EXTENDING
                  /\ state[j] = READY_TO_PUSH => state'[j] = READY_TO_PUSH
                  /\ state_ready_to_push(j) => req_result'[j] = "denied"]_vars

\* Corner i is halted on a handshake jam and the opposite corner on a retract jam,
\* both reserved, and a corner between them, whose own interval has long passed,
\* has been refused in READY_TO_PUSH.
C39_Witness ==
    \E i \in Corners : \E j \in get_adjacent_corners(i) :
        \E k \in get_adjacent_corners(j) :
            /\ JamLocked(i) /\ jam_log[i] = "jam_no_confirmation"
            /\ JamLocked(k) /\ jam_log[k] = "failed_to_retract"
            /\ state[j] = READY_TO_PUSH /\ req_result[j] = "denied"
            /\ now - corner_last_used[j] >= min_interval

\* Corner i (1 or 3) has stopped its feed motor and not restarted it
HoldsFeedStopped(i) ==
    state[i] # IDLE /\ motor_speed[feed_motor_num(i)] = 0

\* C33: in no reachable state does corner 1 hold motor 1 stopped while corner 2
\* waits for its handshake, nor corner 3 motor 2 while corner 4 waits.
C33_FeedRunsWhileDownstreamWaits ==
    /\ ~(HoldsFeedStopped(1) /\ corners_waiting_handshake[2])
    /\ ~(HoldsFeedStopped(3) /\ corners_waiting_handshake[4])

----------------------------------------------------------------------------
(* Further properties of the producers and the fuser *)

\* the event traced as uid is in the gpio queue
InGpioQueue(uid) == \E n \in 1..Len(gpio_queue) : gpio_queue[n].uid = uid

\* C34: as long as nothing drains the gpio queue, the station-exit event of an
\* edge on the pin of S1_EXIT or S2_EXIT is in the queue exactly when the
\* corner-arrival event of the same edge is.
C34_DualEventsEnqueuedTogether ==
    \A n \in 1..Len(emitted_barriers) :
        LET event == emitted_barriers[n] IN
            (event.source = "gpio" /\ event.barrier_id \in {"S1_EXIT", "S2_EXIT"})
                => (InGpioQueue(event.uid) <=> InGpioQueue(<<event.uid[1], 2>>))

\* C35: every barrier event a producer creates has a location with an FSM in
\* fsm_map, and every call of _deliver_event hands its event to an FSM.
C35_EveryBarrierHasFsm ==
    /\ \A n \in 1..Len(emitted_barriers) :
          <<emitted_barriers[n].location_type, emitted_barriers[n].location_id>> \in fsm_map
    /\ \A k \in 1..Len(deliver_calls) : deliver_calls[k].handed # <<>>

\* C40: every ERROR_ORPHAN record in the activity log is for S1_ENTRY or S2_ENTRY;
\* and each pass of the fuser loop delivers every barrier before it that is not
\* an entry barrier, whatever its age, keeps none of them pending and writes no
\* record for it.
C40_OnlyEntryBarriersOrphaned ==
    /\ [](\A k \in LogIndices(activity_log, "ERROR_ORPHAN") :
            /\ activity_log[k].activity[2] \in EntryBarriers
            /\ \E b \in 1..Len(emitted_barriers) :
                  /\ emitted_barriers[b].uid = activity_log[k].uid
                  /\ emitted_barriers[b].barrier_id \in EntryBarriers)
    /\ [][cep_run =>
            LET gpios == pending_gpio_events \o gpio_queue \o mcp_queue
                new_calls == SubSeq(deliver_calls', Len(deliver_calls) + 1, Len(deliver_calls'))
            IN  \A j \in 1..Len(gpios) :
                    gpios[j].barrier_id \notin EntryBarriers =>
                        /\ \E k \in 1..Len(new_calls) : new_calls[k].sensor_event = gpios[j]
                        /\ ~InSeq(gpios[j], pending_gpio_events')
                        /\ LogIndicesOf(activity_log', "ERROR_ORPHAN", gpios[j].uid) = {}]_vars

\* A barrier that is not an entry barrier and an entry barrier wait in the queues,
\* both older than DELTA_T_EXPIRY, and the pass of the fuser that drains them
\* delivers the first and writes an orphan record for the second alone.
C40_Witness ==
    LET queued == gpio_queue \o mcp_queue IN
    \E j, e \in 1..Len(queued) :
        /\ queued[j].barrier_id \notin EntryBarriers
        /\ queued[e].barrier_id \in EntryBarriers
        /\ now - queued[j].timestamp > DELTA_T_EXPIRY
        /\ now - queued[e].timestamp > DELTA_T_EXPIRY
        /\ ENABLED (/\ cep_run
                    /\ \E k \in 1..Len(deliver_calls') :
                          deliver_calls'[k].sensor_event = queued[j]
                    /\ LogIndicesOf(activity_log', "ERROR_ORPHAN", queued[j].uid) = {}
                    /\ Cardinality(LogIndicesOf(activity_log', "ERROR_ORPHAN",
                                                queued[e].uid)) = 1
                    /\ pending_gpio_events' = <<>>)

----------------------------------------------------------------------------
(* Further properties of the station controllers *)

\* C38: between handlers and timer callbacks a station has a current_part exactly
\* when it is not IDLE; current_part changes only in the step IDLE -> ENTERING of
\* an entry event, which sets it to the part_id of that event, and in the step
\* EXITING -> IDLE of _exit_complete, which clears it.
C38_CurrentPartFollowsState ==
    /\ [](\A x \in Stations : (current_part[x] # None) <=> (station_state[x] # IDLE))
    /\ [][\A x \in Stations :
            current_part'[x] # current_part[x] =>
                \/ /\ station_state[x] = IDLE /\ station_state'[x] = ENTERING
                   /\ \E event \in StationEvents(x) :
                        /\ event.barrier_id = entry_barrier(x)
                        /\ event.part_id = current_part'[x]
                        /\ process_event(x, event)
                \/ /\ station_state[x] = EXITING /\ station_state'[x] = IDLE
                   /\ current_part'[x] = None
                   /\ exit_complete(x)]_vars

\* A station took part "ab" in, was handed a further entry event while ENTERING,
\* wrote its EXIT record for "ab" and is IDLE again without a part.
C38_Witness ==
    \E x \in Stations :
        /\ station_state[x] = IDLE /\ current_part[x] = None
        /\ n_entry_jitter > 0
        /\ \E k \in 1..Len(station_log) :
              /\ station_log[k].station_id = station_id(x)
              /\ station_log[k].activity = "EXIT"
              /\ station_log[k].part_id = "ab"

============================================================================
